---- MODULE Spec2Model ----
(***************************************************************************)
(* su-js-utils: string, array, date and validation utilities, and the      *)
(* root aggregator module.  Every utility is a function from JavaScript    *)
(* values to a JavaScript value (or an exception); a call is one step of   *)
(* the state machine: fn is the function called, args its arguments and    *)
(* ret its completion.  JavaScript values are tagged records, strings are  *)
(* sequences of one-character strings, objects are functions from property *)
(* names to values, Date objects live in heap and are named by reference.  *)
(* env is the host: its local time zone and the current time.              *)
(***************************************************************************)
EXTENDS Integers, Sequences, FiniteSets, TLC

VARIABLES fn, args, ret, pc, loc, heap, env

vars == <<fn, args, ret, pc, loc, heap, env>>

(***************************************************************************)
(* Bounds of the model.                                                    *)
(***************************************************************************)
\* longest array handed to an array utility
MaxLen == 3
\* largest number stored in an array or in a key field
MaxNum == 2

(***************************************************************************)
(* JavaScript values.                                                      *)
(***************************************************************************)
Undefined == [t |-> "undefined"]
Null == [t |-> "null"]
NaN == [t |-> "nan"]
Bool(b) == [t |-> "boolean", v |-> b]
Num(n) == [t |-> "number", v |-> n]
Str(s) == [t |-> "string", v |-> s]
Arr(s) == [t |-> "array", v |-> s]
Obj(f) == [t |-> "object", v |-> f]
Fun(name) == [t |-> "function", v |-> name]
\* an abrupt completion: the call raised the named exception
Throw(e) == [t |-> "throw", v |-> e]

IsArray(x) == x.t = "array"
IsThrow(x) == x.t = "throw"

\* the typeof operator
TypeOf(x) ==
    CASE x.t = "undefined" -> "undefined"
      [] x.t = "boolean" -> "boolean"
      [] x.t \in {"number", "nan"} -> "number"
      [] x.t = "string" -> "string"
      [] x.t = "function" -> "function"
      [] OTHER -> "object"

\* ToBoolean: the falsy values are false, 0, "", null, undefined and NaN
Truthy(x) ==
    CASE x.t \in {"undefined", "null", "nan"} -> FALSE
      [] x.t = "boolean" -> x.v
      [] x.t = "number" -> x.v # 0
      [] x.t = "string" -> x.v # <<>>
      [] OTHER -> TRUE

\* a parameter with a default value: the default applies to undefined only
Default(x, d) == IF x = Undefined THEN d ELSE x

\* the optional-chained property read a?.[key]; the objects of the model
\* carry own data properties only, and primitives carry none
PropOf(a, key) ==
    IF a.t = "object" /\ key \in DOMAIN a.v THEN a.v[key] ELSE Undefined

Min(a, b) == IF a < b THEN a ELSE b
Max(a, b) == IF a > b THEN a ELSE b

\* Array.prototype.slice / String.prototype.slice on a sequence: negative
\* indices count from the end, both ends are clamped to the length
RelIndex(i, len) == IF i < 0 THEN Max(len + i, 0) ELSE Min(i, len)
slice(s, start, end) ==
    SubSeq(s, RelIndex(start, Len(s)) + 1, RelIndex(end, Len(s)))

\* Array.prototype.filter is SelectSeq.
\* Array.prototype.includes and Set membership (SameValueZero) on primitives
Includes(s, x) == \E i \in 1..Len(s) : s[i] = x

\* the decimal digits of a small non-negative integer
RECURSIVE Digits(_)
Digits(n) ==
    LET d == <<"0", "1", "2", "3", "4", "5", "6", "7", "8", "9">>
    IN  IF n < 10 THEN <<d[n + 1]>> ELSE Append(Digits(n \div 10), d[(n % 10) + 1])

\* ToString of a primitive, as used for a computed property name
ToPropertyKey(x) ==
    CASE x.t = "string" -> x.v
      [] x.t = "number" -> IF x.v < 0 THEN <<"-">> \o Digits(-x.v) ELSE Digits(x.v)
      [] x.t = "nan" -> <<"N", "a", "N">>
      [] x.t = "null" -> <<"n", "u", "l", "l">>
      [] x.t = "boolean" -> IF x.v THEN <<"t", "r", "u", "e">>
                            ELSE <<"f", "a", "l", "s", "e">>
      [] OTHER -> <<"[", "o", "b", "j", "e", "c", "t", "]">>

(***************************************************************************)
(* Array utilities.                                                        *)
(***************************************************************************)
get(arr, index, defaultValue) ==
    IF ~IsArray(arr) \/ index.v < 0 \/ index.v >= Len(arr.v)
    THEN defaultValue
    ELSE arr.v[index.v + 1]

\* [...new Set(arr)]: the elements in order of first insertion
RECURSIVE SetOrder(_, _)
SetOrder(s, acc) ==
    IF s = <<>> THEN acc
    ELSE SetOrder(Tail(s), IF Includes(acc, Head(s)) THEN acc
                           ELSE Append(acc, Head(s)))

\* a unique that drops an element only when it repeats its left neighbour
uniqueAdjacent(arr) ==
    IF ~IsArray(arr) THEN Arr(<<>>)
    ELSE LET Kept == {i \in 1..Len(arr.v) : i = 1 \/ arr.v[i] # arr.v[i - 1]}
             Nth(n) == CHOOSE i \in Kept : Cardinality({j \in Kept : j < i}) = n - 1
         IN  Arr([n \in 1..Cardinality(Kept) |-> arr.v[Nth(n)]])

unique(arr) ==
    IF ~IsArray(arr) THEN Arr(<<>>) ELSE Arr(SetOrder(arr.v, <<>>))

\* the loop of chunk running while i <= arr.length
RECURSIVE chunkLoopInclusive(_, _, _, _)
chunkLoopInclusive(a, size, i, chunks) ==
    IF i <= Len(a)
    THEN chunkLoopInclusive(a, size, i + size, Append(chunks, Arr(slice(a, i, i + size))))
    ELSE chunks

RECURSIVE chunkLoop(_, _, _, _)
chunkLoop(a, size, i, chunks) ==
    IF i < Len(a)
    THEN chunkLoop(a, size, i + size, Append(chunks, Arr(slice(a, i, i + size))))
    ELSE chunks

chunk(arr, size) ==
    LET sz == Default(size, Num(1))
    IN  IF ~IsArray(arr) \/ sz.v < 1 THEN Arr(<<>>)
        ELSE Arr(chunkLoop(arr.v, sz.v, 0, <<>>))

\* Array.prototype.push in the place of concat: an array argument is kept whole
concatWhole(flat, item) == Append(flat, item)

\* Array.prototype.concat with one argument: an array argument is spread
concat(flat, item) == IF IsArray(item) THEN flat \o item.v ELSE Append(flat, item)

RECURSIVE flatten(_, _)
RECURSIVE flattenReduce(_, _, _)
flattenReduce(items, depth, flat) ==
    IF items = <<>> THEN flat
    ELSE LET item == Head(items)
         IN  flattenReduce(Tail(items), depth,
                 IF IsArray(item) /\ depth > 0
                 THEN concat(flat, flatten(item, Num(depth - 1)))
                 ELSE concat(flat, item))

flatten(arr, depth) ==
    LET d == Default(depth, Num(1))
    IN  IF ~IsArray(arr) THEN Arr(<<>>)
        ELSE IF d.v < 1 THEN Arr(arr.v)
        ELSE Arr(flattenReduce(arr.v, d.v, <<>>))

intersection(arr1, arr2) ==
    IF ~IsArray(arr1) \/ ~IsArray(arr2) THEN Arr(<<>>)
    ELSE LET Keep(item) == Includes(arr2.v, item) IN Arr(SelectSeq(arr1.v, Keep))

compact(arr) ==
    IF ~IsArray(arr) THEN Arr(<<>>) ELSE Arr(SelectSeq(arr.v, Truthy))

\* the < operator on two numbers (the key fields of the model are numbers)
Less(x, y) == x.t = "number" /\ y.t = "number" /\ x.v < y.v

\* the comparator sortBy hands to Array.prototype.sort
sortByCompare(a, b, key, desc) ==
    LET valueA == PropOf(a, key)
        valueB == PropOf(b, key)
        result == IF Less(valueA, valueB) THEN -1
                  ELSE IF Less(valueB, valueA) THEN 1 ELSE 0
    IN  IF valueA = Undefined /\ valueB = Undefined THEN 0
        ELSE IF valueA = Undefined THEN (IF desc THEN 1 ELSE -1)
        ELSE IF valueB = Undefined THEN (IF desc THEN -1 ELSE 1)
        ELSE IF desc THEN -result ELSE result

\* Array.prototype.sort with that comparator: undefined elements are never
\* compared and go last; the others are sorted stably (an insertion from the
\* right, which every stable sort agrees with on a consistent comparator)
RECURSIVE SortInsertAll(_, _, _, _)
SortInsertAll(s, sorted, key, desc) ==
    IF s = <<>> THEN sorted
    ELSE LET x == Head(s)
             p == CHOOSE q \in 0..Len(sorted) :
                    /\ q = 0 \/ sortByCompare(sorted[q], x, key, desc) <= 0
                    /\ \A r \in (q + 1)..Len(sorted) :
                          sortByCompare(sorted[r], x, key, desc) > 0
         IN  SortInsertAll(Tail(s),
                 SubSeq(sorted, 1, p) \o <<x>> \o SubSeq(sorted, p + 1, Len(sorted)),
                 key, desc)

\* an unstable sort: elements the comparator calls equal come out reversed
ArraySortReversing(s, key, desc) ==
    LET IsDefined(x) == x # Undefined
        IsUndefined(x) == x = Undefined
        defined == SelectSeq(s, IsDefined)
        reversed == [i \in 1..Len(defined) |-> defined[Len(defined) + 1 - i]]
    IN  SortInsertAll(reversed, <<>>, key, desc) \o SelectSeq(s, IsUndefined)

ArraySort(s, key, desc) ==
    LET IsDefined(x) == x # Undefined
        IsUndefined(x) == x = Undefined
    IN  SortInsertAll(SelectSeq(s, IsDefined), <<>>, key, desc) \o SelectSeq(s, IsUndefined)

sortBy(arr, key, desc) ==
    IF ~IsArray(arr) THEN Arr(<<>>)
    ELSE Arr(ArraySort(arr.v, key, Truthy(Default(desc, Bool(FALSE)))))

\* the predicates handed to findIndex in the model, by name
ApplyPredicate(name, item, i) ==
    CASE name = "isMax" -> item = Num(MaxNum)
      [] name = "isFirst" -> i = 0
      [] name = "never" -> FALSE
      [] OTHER -> TRUE

RECURSIVE findIndexLoop(_, _, _)
findIndexLoop(a, predicate, i) ==
    IF i < Len(a)
    THEN IF ApplyPredicate(predicate.v, a[i + 1], i) THEN i
         ELSE findIndexLoop(a, predicate, i + 1)
    ELSE -1

findIndex(arr, predicate) ==
    IF ~IsArray(arr) \/ TypeOf(predicate) # "function" THEN Num(-1)
    ELSE Num(findIndexLoop(arr.v, predicate, 0))

difference(arr1, arr2) ==
    IF ~IsArray(arr1) \/ ~IsArray(arr2) THEN Arr(<<>>)
    ELSE LET Keep(item) == ~Includes(arr2.v, item) IN Arr(SelectSeq(arr1.v, Keep))

\* property names every object literal inherits from Object.prototype
ObjectPrototypeProps ==
    { <<"t", "o", "S", "t", "r", "i", "n", "g">>,
      <<"v", "a", "l", "u", "e", "O", "f">>,
      <<"c", "o", "n", "s", "t", "r", "u", "c", "t", "o", "r">> }

\* the reducer of groupBy over groups = {}: groups[value] of an inherited
\* property is a function, which is truthy and has no push method
RECURSIVE groupByReduce(_, _, _)
groupByReduce(items, key, groups) ==
    IF items = <<>> THEN Obj(groups)
    ELSE LET item == Head(items)
             value == PropOf(item, key)
             name == ToPropertyKey(value)
         IN  IF value = Undefined THEN groupByReduce(Tail(items), key, groups)
             ELSE IF name \notin DOMAIN groups /\ name \in ObjectPrototypeProps
             THEN Throw("TypeError")
             ELSE groupByReduce(Tail(items), key,
                      IF name \in DOMAIN groups
                      THEN [groups EXCEPT ![name] = Arr(Append(@.v, item))]
                      ELSE groups @@ (name :> Arr(<<item>>)))

groupBy(arr, key) ==
    IF ~IsArray(arr) THEN Obj(<<>>) ELSE groupByReduce(arr.v, key, <<>>)

move(arr, from, to) ==
    IF ~IsArray(arr) THEN Arr(<<>>)
    ELSE IF from.v < 0 \/ from.v >= Len(arr.v) \/ to.v < 0 \/ to.v >= Len(arr.v)
    THEN Arr(arr.v)
    ELSE LET element == arr.v[from.v + 1]
             spliced == SubSeq(arr.v, 1, from.v) \o SubSeq(arr.v, from.v + 2, Len(arr.v))
         IN  Arr(SubSeq(spliced, 1, to.v) \o <<element>>
                 \o SubSeq(spliced, to.v + 1, Len(spliced)))

\* the + of two numbers, either of which may be NaN
NumAdd(x, y) == IF x.t = "nan" \/ y.t = "nan" THEN NaN ELSE Num(x.v + y.v)

RECURSIVE sumByReduce(_, _, _)
sumByReduce(items, key, sum) ==
    IF items = <<>> THEN sum
    ELSE LET value == PropOf(Head(items), key)
         IN  sumByReduce(Tail(items), key,
                 NumAdd(sum, IF TypeOf(value) = "number" THEN value ELSE Num(0)))

\* sumBy without its Array.isArray guard: arr.reduce is not a function
sumByUnguarded(arr, key) ==
    IF IsArray(arr) THEN sumByReduce(arr.v, key, Num(0)) ELSE Throw("TypeError")

sumBy(arr, key) ==
    IF ~IsArray(arr) THEN Num(0) ELSE sumByReduce(arr.v, key, Num(0))

(***************************************************************************)
(* The sampling loop of sample(arr, count), one draw of Math.random at a   *)
(* time: loc holds the loop's result and taken.                            *)
(***************************************************************************)
sampleEarlyReturn(arr, count) ==
    \/ ~IsArray(arr)
    \/ Len(arr.v) = 0
    \/ Default(count, Num(1)).v < 1

\* the loop goes on while the result is short of count, whatever is taken
sampleLoopCountOnly(arr, count, l) == Len(l.result) < Default(count, Num(1)).v

sampleLoopCondition(arr, count, l) ==
    /\ Len(l.result) < Default(count, Num(1)).v
    /\ Cardinality(l.taken) < Len(arr.v)

\* a draw that takes the element whether or not its index was taken before
sampleDrawAgain(arr, l, index) ==
    [result |-> Append(l.result, arr.v[index + 1]), taken |-> l.taken \cup {index}]

sampleDraw(arr, l, index) ==
    IF index \notin l.taken
    THEN [result |-> Append(l.result, arr.v[index + 1]), taken |-> l.taken \cup {index}]
    ELSE l

(***************************************************************************)
(* Inputs of the array utilities.                                          *)
(***************************************************************************)
SeqsUpTo(S, n) == UNION {[1..k -> S] : k \in 0..n}

\* the property names used as key
K == <<"k">>
Id == <<"i", "d">>

\* first arguments that are not arrays
NonArrays ==
    {Null, Undefined, Num(MaxNum), Str(<<"a", "b">>), Bool(TRUE), Obj(K :> Num(1))}

Numbers == {Num(n) : n \in 0..MaxNum}
Prims == Numbers \cup {Null}
PrimArrays == {Arr(s) : s \in SeqsUpTo(Prims, MaxLen)}
NumArrays == {Arr(s) : s \in SeqsUpTo(Numbers, MaxLen)}
ShortArrays == {Arr(s) : s \in SeqsUpTo(Numbers, 1)}

\* records with a numeric key field (told apart by id), records without the
\* key field, and the element undefined
Recs ==
    {Obj((K :> Num(n)) @@ (Id :> Num(i))) : n \in 1..MaxNum, i \in 0..1}
        \cup {Obj(Id :> Num(i)) : i \in 0..1} \cup {Undefined}
RecArrays == {Arr(s) : s \in SeqsUpTo(Recs, MaxLen)}

\* records whose key field is a string, a number or not a number
NamedRecs ==
    {Obj(K :> Str(n)) : n \in ObjectPrototypeProps \cup {<<"a">>, <<"1">>}}
        \cup {Obj(K :> Num(1)), Obj(K :> NaN), Obj(Id :> Num(0)), Num(1)}
NamedArrays == {Arr(s) : s \in SeqsUpTo(NamedRecs, MaxLen)}

\* nested arrays
Nested ==
    { Num(1), Arr(<<>>), Arr(<<Num(2)>>),
      Arr(<<Num(1), Arr(<<Num(2), Arr(<<Num(0)>>)>>)>>) }
NestedArrays == {Arr(s) : s \in SeqsUpTo(Nested, MaxLen)}

Indexes == {Num(i) : i \in (-1)..(MaxLen + 1)}
Predicates == {Fun("isMax"), Fun("isFirst"), Fun("never"), Undefined, Num(1)}

Returned(f, a, r) ==
    /\ fn' = f
    /\ args' = a
    /\ ret' = r
    /\ pc' = "done"
    /\ UNCHANGED <<loc, heap, env>>

(***************************************************************************)
(* One call of an array utility.                                           *)
(***************************************************************************)
CallGet ==
    /\ pc = "idle"
    /\ \E arr \in PrimArrays \cup NonArrays, index \in Indexes,
           defaultValue \in {Undefined, Num(0)} :
            Returned("get", [arr |-> arr, index |-> index, defaultValue |-> defaultValue],
                     get(arr, index, defaultValue))

CallUnique ==
    /\ pc = "idle"
    /\ \E arr \in PrimArrays \cup NonArrays :
            Returned("unique", [arr |-> arr], unique(arr))

CallChunk ==
    /\ pc = "idle"
    /\ \E arr \in PrimArrays \cup NonArrays, size \in Indexes \cup {Undefined} :
            Returned("chunk", [arr |-> arr, size |-> size], chunk(arr, size))

CallFlatten ==
    /\ pc = "idle"
    /\ \E arr \in NestedArrays \cup NonArrays, depth \in Indexes \cup {Undefined} :
            Returned("flatten", [arr |-> arr, depth |-> depth], flatten(arr, depth))

CallIntersection ==
    /\ pc = "idle"
    /\ \E arr1 \in NumArrays \cup NonArrays, arr2 \in ShortArrays \cup NumArrays \cup {Null} :
            Returned("intersection", [arr1 |-> arr1, arr2 |-> arr2], intersection(arr1, arr2))

CallDifference ==
    /\ pc = "idle"
    /\ \E arr1 \in NumArrays \cup NonArrays, arr2 \in ShortArrays \cup NumArrays \cup {Null} :
            Returned("difference", [arr1 |-> arr1, arr2 |-> arr2], difference(arr1, arr2))

CallCompact ==
    /\ pc = "idle"
    /\ \E arr \in PrimArrays \cup NonArrays :
            Returned("compact", [arr |-> arr], compact(arr))

CallSortBy ==
    /\ pc = "idle"
    /\ \E arr \in RecArrays \cup NonArrays, desc \in {Undefined, Bool(FALSE), Bool(TRUE)} :
            Returned("sortBy", [arr |-> arr, key |-> K, desc |-> desc], sortBy(arr, K, desc))

CallFindIndex ==
    /\ pc = "idle"
    /\ \E arr \in NumArrays \cup NonArrays, predicate \in Predicates :
            Returned("findIndex", [arr |-> arr, predicate |-> predicate],
                     findIndex(arr, predicate))

CallGroupBy ==
    /\ pc = "idle"
    /\ \E arr \in NamedArrays \cup NonArrays :
            Returned("groupBy", [arr |-> arr, key |-> K], groupBy(arr, K))

CallMove ==
    /\ pc = "idle"
    /\ \E arr \in NumArrays \cup NonArrays, from \in Indexes, to \in Indexes :
            Returned("move", [arr |-> arr, from |-> from, to |-> to], move(arr, from, to))

CallSumBy ==
    /\ pc = "idle"
    /\ \E arr \in NamedArrays \cup NonArrays :
            Returned("sumBy", [arr |-> arr, key |-> K], sumBy(arr, K))

CallSample ==
    /\ pc = "idle"
    /\ \E arr \in NumArrays \cup NonArrays, count \in Indexes \cup {Undefined} :
        /\ fn' = "sample"
        /\ args' = [arr |-> arr, count |-> count]
        /\ IF sampleEarlyReturn(arr, count)
           THEN ret' = Arr(<<>>) /\ pc' = "done" /\ loc' = loc
           ELSE ret' = ret /\ pc' = "sample" /\ loc' = [result |-> <<>>, taken |-> {}]
    /\ UNCHANGED <<heap, env>>

SampleDraw ==
    /\ pc = "sample"
    /\ sampleLoopCondition(args.arr, args.count, loc)
    /\ \E index \in 0..(Len(args.arr.v) - 1) :
           loc' = sampleDraw(args.arr, loc, index)
    /\ UNCHANGED <<fn, args, ret, pc, heap, env>>

SampleReturn ==
    /\ pc = "sample"
    /\ ~sampleLoopCondition(args.arr, args.count, loc)
    /\ ret' = Arr(loc.result)
    /\ pc' = "done"
    /\ UNCHANGED <<fn, args, loc, heap, env>>

Idle ==
    /\ fn = "none"
    /\ args = <<>>
    /\ ret = Undefined
    /\ pc = "idle"
    /\ loc = <<>>
    /\ heap = <<>>
    /\ env = <<>>

InitArray == Idle

NextArray ==
    \/ CallGet
    \/ CallUnique
    \/ CallChunk
    \/ CallFlatten
    \/ CallIntersection
    \/ CallDifference
    \/ CallCompact
    \/ CallSortBy
    \/ CallFindIndex
    \/ CallGroupBy
    \/ CallMove
    \/ CallSumBy
    \/ CallSample
    \/ SampleDraw
    \/ SampleReturn

SpecArray == InitArray /\ [][NextArray]_vars

(***************************************************************************)
(* Properties of the array utilities.                                     *)
(***************************************************************************)
sortByDone == fn = "sortBy" /\ pc = "done" /\ IsArray(args.arr)

\* C1: sortBy in ascending order places every element whose key field is
\* undefined after every element whose key field is defined, and in
\* descending order before every such element.
C1_UndefinedLastAscending ==
    sortByDone =>
        \A i, j \in 1..Len(ret.v) :
            (PropOf(ret.v[i], args.key) = Undefined
                /\ PropOf(ret.v[j], args.key) # Undefined)
            => IF Truthy(Default(args.desc, Bool(FALSE))) THEN i < j ELSE i > j

ArrayFns ==
    {"get", "unique", "chunk", "flatten", "intersection", "difference", "compact",
     "sortBy", "findIndex", "groupBy", "sample", "move", "sumBy"}

FirstArg == IF fn \in {"intersection", "difference"} THEN args.arr1 ELSE args.arr

\* the safe default each array utility documents for a malformed input
SafeDefault ==
    CASE fn = "get" -> args.defaultValue
      [] fn = "findIndex" -> Num(-1)
      [] fn = "groupBy" -> Obj(<<>>)
      [] fn = "sumBy" -> Num(0)
      [] OTHER -> Arr(<<>>)

\* C5: every array utility called with a first argument that is not an array
\* returns its safe default without raising (get: defaultValue; findIndex: -1,
\* also when the predicate is not a function; groupBy: an empty mapping;
\* sumBy: 0; the others: an empty array).
C5_NonArraySafeDefault ==
    /\ (fn \in ArrayFns /\ ~IsArray(FirstArg)) => (pc = "done" /\ ret = SafeDefault)
    /\ (fn = "findIndex" /\ TypeOf(args.predicate) # "function") => ret = Num(-1)

C5_Witness ==
    \/ fn = "groupBy" /\ args.arr = Null /\ ret = Obj(<<>>)
    \/ fn = "get" /\ args.arr = Str(<<"a", "b">>) /\ args.index = Num(0)
          /\ args.defaultValue = Num(0) /\ ret = Num(0)

(***************************************************************************)
(* Time values.  A Date object holds a time value: NaN (Invalid Date) or a *)
(* whole number of milliseconds since 1970-01-01T00:00:00Z.  The model      *)
(* keeps a number of milliseconds as d days and m milliseconds             *)
(* (0 <= m < MsPerDay), which is exact for every difference and quotient   *)
(* the code takes.  The local time zone is a fixed offset env.tz, in       *)
(* minutes east of Greenwich.                                              *)
(***************************************************************************)
MsPerMinute == 60 * 1000
MsPerHour == 60 * 60 * 1000
MsPerDay == 24 * 60 * 60 * 1000

Time(d, m) == [t |-> "time", d |-> d + (m \div MsPerDay), m |-> m % MsPerDay]
IsTime(x) == x.t = "time"

\* a - b, -a and |a| on numbers of milliseconds
MsSub(a, b) == Time(a.d - b.d, a.m - b.m)
MsNeg(a) == Time(-a.d, -a.m)
MsNegative(a) == a.d < 0
MsAbs(a) == IF MsNegative(a) THEN MsNeg(a) ELSE a

\* a <= unit in the place of a < unit
MsLessOrEqual(a, unit) ==
    IF unit <= MsPerDay THEN a.d < 0 \/ (a.d = 0 /\ a.m <= unit)
    ELSE a.d < unit \div MsPerDay \/ (a.d = unit \div MsPerDay /\ a.m = 0)

\* a < unit, for a unit that divides a day or is a whole number of days
MsLess(a, unit) ==
    IF unit <= MsPerDay THEN a.d < 0 \/ (a.d = 0 /\ a.m < unit)
    ELSE a.d < unit \div MsPerDay

\* Math.floor(a / unit), for such a unit
MsFloorDiv(a, unit) ==
    IF unit <= MsPerDay THEN a.d * (MsPerDay \div unit) + (a.m \div unit)
    ELSE a.d \div (unit \div MsPerDay)

\* days since 1970-01-01 of the civil date y-m-d (m in 1..12), and back
DaysOfEra(era, yoe, doy) ==
    era * 146097 + (yoe * 365 + yoe \div 4 - yoe \div 100 + doy) - 719468

DaysOfYear(yy, doy) == DaysOfEra(yy \div 400, yy % 400, doy)

DaysFromCivil(y, m, d) ==
    DaysOfYear(IF m <= 2 THEN y - 1 ELSE y,
               (153 * (IF m > 2 THEN m - 3 ELSE m + 9) + 2) \div 5 + d - 1)

CivilOfYear(era, yoe, doy, mp) ==
    [year |-> yoe + era * 400 + (IF mp < 10 THEN 0 ELSE 1),
     month |-> IF mp < 10 THEN mp + 2 ELSE mp - 10,
     date |-> doy - (153 * mp + 2) \div 5 + 1]

CivilOfDay(era, yoe, doy) == CivilOfYear(era, yoe, doy, (5 * doy + 2) \div 153)

CivilOfEra(era, doe, yoe) ==
    CivilOfDay(era, yoe, doe - (365 * yoe + yoe \div 4 - yoe \div 100))

CivilFromEra(era, doe) ==
    CivilOfEra(era, doe,
               (doe - doe \div 1460 + doe \div 36524 - doe \div 146096) \div 365)

CivilFromDays(days) ==
    CivilFromEra((days + 719468) \div 146097, (days + 719468) % 146097)

\* the local time of a time value, and its fields
LocalTime(tv) == Time(tv.d, tv.m + env.tz * MsPerMinute)

PartsOf(l, c) ==
    [year |-> c.year, month |-> c.month, date |-> c.date,
     day |-> (l.d + 4) % 7,
     hours |-> l.m \div MsPerHour,
     minutes |-> (l.m % MsPerHour) \div MsPerMinute,
     seconds |-> (l.m % MsPerMinute) \div 1000,
     milliseconds |-> l.m % 1000]

PartsLocal(l) == PartsOf(l, CivilFromDays(l.d))

Parts(tv) == PartsLocal(LocalTime(tv))

\* the getters of Date.prototype: NaN on an Invalid Date
getFullYear(tv) == IF IsTime(tv) THEN Num(Parts(tv).year) ELSE NaN
getMonth(tv) == IF IsTime(tv) THEN Num(Parts(tv).month) ELSE NaN
getDate(tv) == IF IsTime(tv) THEN Num(Parts(tv).date) ELSE NaN
getDay(tv) == IF IsTime(tv) THEN Num(Parts(tv).day) ELSE NaN
getHours(tv) == IF IsTime(tv) THEN Num(Parts(tv).hours) ELSE NaN
getMinutes(tv) == IF IsTime(tv) THEN Num(Parts(tv).minutes) ELSE NaN
getSeconds(tv) == IF IsTime(tv) THEN Num(Parts(tv).seconds) ELSE NaN
getMilliseconds(tv) == IF IsTime(tv) THEN Num(Parts(tv).milliseconds) ELSE NaN

\* the time value of local year, month, date, hours, minutes, seconds and
\* ms: fields out of range carry over; a NaN field gives an Invalid Date
MakeDate(year, month, date, hours, minutes, seconds, ms) ==
    IF \E x \in {year, month, date, hours, minutes, seconds, ms} : x.t # "number"
    THEN NaN
    ELSE Time(DaysFromCivil(year.v + (month.v \div 12), (month.v % 12) + 1, 1)
                  + date.v - 1,
              hours.v * MsPerHour + minutes.v * MsPerMinute + seconds.v * 1000 + ms.v
                  - env.tz * MsPerMinute)

\* new Date(year, month, date, hours, minutes, seconds, ms): a year of 0..99
\* is a year of 1900..1999
NewDate(year, month, date, hours, minutes, seconds, ms) ==
    MakeDate(IF year.t = "number" /\ year.v \in 0..99 THEN Num(1900 + year.v) ELSE year,
             month, date, hours, minutes, seconds, ms)

\* d.setFullYear(y), d.setMonth(m), ...: the time value the setter stores
\* in d and returns
DateOfParts(p) ==
    MakeDate(Num(p.year), Num(p.month), Num(p.date), Num(p.hours),
            Num(p.minutes), Num(p.seconds), Num(p.milliseconds))

SetField(tv, field, x) ==
    IF ~IsTime(tv) \/ x.t # "number" THEN NaN
    ELSE DateOfParts([Parts(tv) EXCEPT ![field] = x.v])

\* arithmetic of numbers that may be NaN
NumPlus(x, n) == IF x.t = "number" THEN Num(x.v + n) ELSE NaN
NumFloorDiv(x, n) == IF x.t = "number" THEN Num(x.v \div n) ELSE NaN
NumTimes(x, n) == IF x.t = "number" THEN Num(x.v * n) ELSE NaN
\* x % n === 0
NumDivides(x, n) == x.t = "number" /\ x.v % n = 0

(***************************************************************************)
(* Date utilities.  A date argument is a reference to a Date object of     *)
(* heap, a string, a number of milliseconds or anything else.  A result    *)
(* that is a newly constructed Date is NewObject(its time value).          *)
(***************************************************************************)
DateRef(id) == [t |-> "dateref", v |-> id]
NewObject(tv) == [t |-> "newdate", v |-> tv]
\* a unit name
Name(s) == [t |-> "name", v |-> s]
Zero == Num(0)

IsDigit(c) == c \in {"0", "1", "2", "3", "4", "5", "6", "7", "8", "9"}
DigitValue(c) ==
    CASE c = "0" -> 0 [] c = "1" -> 1 [] c = "2" -> 2 [] c = "3" -> 3 [] c = "4" -> 4
      [] c = "5" -> 5 [] c = "6" -> 6 [] c = "7" -> 7 [] c = "8" -> 8 [] c = "9" -> 9

RECURSIVE ParseDigits(_)
ParseDigits(s) ==
    IF s = <<>> THEN 0
    ELSE ParseDigits(SubSeq(s, 1, Len(s) - 1)) * 10 + DigitValue(s[Len(s)])

AllDigits(s) == \A i \in 1..Len(s) : IsDigit(s[i])

\* /^\d{4}-\d{2}-\d{2}$/.test(date)
MatchesYMD(s) ==
    /\ Len(s) = 10
    /\ AllDigits(SubSeq(s, 1, 4)) /\ s[5] = "-"
    /\ AllDigits(SubSeq(s, 6, 7)) /\ s[8] = "-"
    /\ AllDigits(SubSeq(s, 9, 10))

\* date.replace(/-/g, "/")
ReplaceDashes(s) == [i \in 1..Len(s) |-> IF s[i] = "-" THEN "/" ELSE s[i]]

\* the year the engine's parser of non-ISO date strings makes of a number:
\* 0..49 is a year of this century, 50..99 a year of the last
LegacyYear(y) == IF y <= 49 THEN y + 2000 ELSE IF y <= 99 THEN y + 1900 ELSE y

\* the fields that parser reads from three numbers a/b/c: year, month and
\* day, unless the first number could be a day of the month, and then
\* month, day and year
LegacyFields(a, b, c) ==
    IF a \in 1..31 THEN [year |-> LegacyYear(c), month |-> a, day |-> b]
    ELSE [year |-> LegacyYear(a), month |-> b, day |-> c]

LegacyDate(f) ==
    IF f.month \in 1..12 /\ f.day \in 1..31
    THEN MakeDate(Num(f.year), Num(f.month - 1), Num(f.day), Zero, Zero, Zero, Zero)
    ELSE NaN

\* new Date(string), for the strings of the model: "YYYY/MM/DD" is a local
\* date (a day of 29..31 past the end of the month carries over), the ISO
\* forms "YYYY-MM" and "YYYY" are UTC, every other string is unparseable
DateParse(s) ==
    IF /\ Len(s) = 10 /\ AllDigits(SubSeq(s, 1, 4)) /\ s[5] = "/"
       /\ AllDigits(SubSeq(s, 6, 7)) /\ s[8] = "/" /\ AllDigits(SubSeq(s, 9, 10))
    THEN LegacyDate(LegacyFields(ParseDigits(SubSeq(s, 1, 4)),
                                 ParseDigits(SubSeq(s, 6, 7)),
                                 ParseDigits(SubSeq(s, 9, 10))))
    ELSE IF Len(s) = 7 /\ AllDigits(SubSeq(s, 1, 4)) /\ s[5] = "-"
            /\ AllDigits(SubSeq(s, 6, 7))
    THEN LET y == ParseDigits(SubSeq(s, 1, 4))
             m == ParseDigits(SubSeq(s, 6, 7))
         IN  IF m \in 1..12 THEN Time(DaysFromCivil(y, m, 1), 0) ELSE NaN
    ELSE IF Len(s) = 4 /\ AllDigits(s)
    THEN Time(DaysFromCivil(ParseDigits(s), 1, 1), 0)
    ELSE NaN

\* toDate: ref is the Date object handed in (0 for an object made here), tv
\* the time value of the object returned
toDate(date) ==
    IF date.t = "dateref" THEN [ref |-> date.v, tv |-> heap[date.v]]
    ELSE IF TypeOf(date) = "number"
    THEN [ref |-> 0, tv |-> IF date.t = "number" THEN Time(0, date.v) ELSE NaN]
    ELSE IF TypeOf(date) = "string"
    THEN [ref |-> 0,
          tv |-> IF MatchesYMD(date.v) THEN DateParse(ReplaceDashes(date.v))
                 ELSE DateParse(date.v)]
    ELSE [ref |-> 0, tv |-> env.now]

isValidDate(d) == IsTime(d.tv)

unitOf(unit) == Default(unit, Name("day")).v

startOf(date, unit) ==
    LET d == toDate(date)
        t == d.tv
        u == unitOf(unit)
    IN  IF ~isValidDate(d) THEN NewObject(env.now)
        ELSE CASE u = "year" ->
                    NewObject(NewDate(getFullYear(t), Zero, Num(1), Zero, Zero, Zero, Zero))
               [] u = "month" ->
                    NewObject(NewDate(getFullYear(t), getMonth(t), Num(1),
                                      Zero, Zero, Zero, Zero))
               [] u = "week" ->
                    NewObject(NewDate(getFullYear(t), getMonth(t),
                                      Num(getDate(t).v - getDay(t).v),
                                      Zero, Zero, Zero, Zero))
               [] u = "day" ->
                    NewObject(NewDate(getFullYear(t), getMonth(t), getDate(t),
                                      Zero, Zero, Zero, Zero))
               [] u = "hour" ->
                    NewObject(NewDate(getFullYear(t), getMonth(t), getDate(t),
                                      getHours(t), Zero, Zero, Zero))
               [] u = "minute" ->
                    NewObject(NewDate(getFullYear(t), getMonth(t), getDate(t),
                                      getHours(t), getMinutes(t), Zero, Zero))
               [] u = "second" ->
                    NewObject(NewDate(getFullYear(t), getMonth(t), getDate(t),
                                      getHours(t), getMinutes(t), getSeconds(t), Zero))
               [] OTHER -> NewObject(t)

endOf(date, unit) ==
    LET d == toDate(date)
        t == d.tv
        u == unitOf(unit)
    IN  IF ~isValidDate(d) THEN NewObject(env.now)
        ELSE CASE u = "year" ->
                    NewObject(NewDate(NumPlus(getFullYear(t), 1), Zero, Zero,
                                      Num(23), Num(59), Num(59), Num(999)))
               [] u = "month" ->
                    NewObject(NewDate(getFullYear(t), NumPlus(getMonth(t), 1), Zero,
                                      Num(23), Num(59), Num(59), Num(999)))
               [] u = "week" ->
                    NewObject(NewDate(getFullYear(t), getMonth(t),
                                      Num(getDate(t).v + (6 - getDay(t).v)),
                                      Num(23), Num(59), Num(59), Num(999)))
               [] u = "day" ->
                    NewObject(NewDate(getFullYear(t), getMonth(t), getDate(t),
                                      Num(23), Num(59), Num(59), Num(999)))
               [] u = "hour" ->
                    NewObject(NewDate(getFullYear(t), getMonth(t), getDate(t),
                                      getHours(t), Num(59), Num(59), Num(999)))
               [] u = "minute" ->
                    NewObject(NewDate(getFullYear(t), getMonth(t), getDate(t),
                                      getHours(t), getMinutes(t), Num(59), Num(999)))
               [] u = "second" ->
                    NewObject(NewDate(getFullYear(t), getMonth(t), getDate(t),
                                      getHours(t), getMinutes(t), getSeconds(t), Num(999)))
               [] OTHER -> NewObject(t)

\* the time value add stores in d with d.setFullYear(...), d.setMonth(...),
\* ...; none for a unit that reaches no setter
addSet(t, amount, u) ==
    CASE u = "year" -> SetField(t, "year", NumPlus(getFullYear(t), amount.v))
      [] u = "month" -> SetField(t, "month", NumPlus(getMonth(t), amount.v))
      [] u = "week" -> SetField(t, "date", NumPlus(getDate(t), amount.v * 7))
      [] u = "day" -> SetField(t, "date", NumPlus(getDate(t), amount.v))
      [] u = "hour" -> SetField(t, "hours", NumPlus(getHours(t), amount.v))
      [] u = "minute" -> SetField(t, "minutes", NumPlus(getMinutes(t), amount.v))
      [] u = "second" -> SetField(t, "seconds", NumPlus(getSeconds(t), amount.v))
      [] OTHER -> [t |-> "none"]

\* add: ret is the Date returned; heap is the heap after the call, in which
\* the setter has written the Date object handed in
addDate(d, set) ==
    IF ~isValidDate(d) THEN [ret |-> NewObject(env.now), heap |-> heap]
    ELSE IF set.t = "none" THEN [ret |-> NewObject(d.tv), heap |-> heap]
    ELSE [ret |-> NewObject(set),
          heap |-> IF d.ref = 0 THEN heap ELSE [heap EXCEPT ![d.ref] = set]]

add(date, amount, unit) ==
    addDate(toDate(date), addSet(toDate(date).tv, amount, unitOf(unit)))

subtract(date, amount, unit) ==
    add(date, Num(-amount.v), Default(unit, Name("day")))

\* a number of milliseconds as a JavaScript number
MsNumber(a) == [t |-> "ms", d |-> a.d, m |-> a.m]

diff(date1, date2, unit) ==
    LET d1 == toDate(date1)
        d2 == toDate(date2)
        u == unitOf(unit)
        diffMs == MsSub(d2.tv, d1.tv)
    IN  IF ~isValidDate(d1) \/ ~isValidDate(d2) THEN Zero
        ELSE CASE u = "year" -> Num(getFullYear(d2.tv).v - getFullYear(d1.tv).v)
               [] u = "month" ->
                    Num((getFullYear(d2.tv).v - getFullYear(d1.tv).v) * 12
                            + getMonth(d2.tv).v - getMonth(d1.tv).v)
               [] u = "week" -> Num(MsFloorDiv(diffMs, 7 * 24 * 60 * 60 * 1000))
               [] u = "day" -> Num(MsFloorDiv(diffMs, 24 * 60 * 60 * 1000))
               [] u = "hour" -> Num(MsFloorDiv(diffMs, 60 * 60 * 1000))
               [] u = "minute" -> Num(MsFloorDiv(diffMs, 60 * 1000))
               [] u = "second" -> Num(MsFloorDiv(diffMs, 1000))
               [] OTHER -> MsNumber(diffMs)

getDayOfYear(date) ==
    LET d == toDate(date)
        start == NewDate(getFullYear(d.tv), Zero, Zero, Zero, Zero, Zero, Zero)
    IN  IF ~isValidDate(d) THEN Zero
        ELSE Num(MsFloorDiv(MsSub(d.tv, start), 1000 * 60 * 60 * 24))

getWeekOfYear(date) ==
    LET d == toDate(date)
        start == NewDate(getFullYear(d.tv), Zero, Num(1), Zero, Zero, Zero, Zero)
        since == MsSub(d.tv, start)
        diffMs == Time(since.d + getDay(start).v, since.m)
    IN  IF ~isValidDate(d) THEN Zero
        ELSE Num(MsFloorDiv(diffMs, 7 * 24 * 60 * 60 * 1000) + 1)

isLeapYear(date) ==
    LET year == getFullYear(toDate(date).tv)
    IN  Bool((NumDivides(year, 4) /\ ~NumDivides(year, 100)) \/ NumDivides(year, 400))

getDaysInMonth(date) ==
    LET d == toDate(date)
    IN  getDate(NewDate(getFullYear(d.tv), NumPlus(getMonth(d.tv), 1), Zero,
                        Zero, Zero, Zero, Zero))

getDaysInYear(date) == IF isLeapYear(date).v THEN Num(366) ELSE Num(365)

getFirstDayOfQuarter(date) ==
    LET d == toDate(date)
        quarter == NumFloorDiv(getMonth(d.tv), 3)
    IN  NewObject(NewDate(getFullYear(d.tv), NumTimes(quarter, 3), Num(1),
                          Zero, Zero, Zero, Zero))

getLastDayOfQuarter(date) ==
    LET d == toDate(date)
        quarter == NumFloorDiv(getMonth(d.tv), 3)
    IN  NewObject(NewDate(getFullYear(d.tv), NumPlus(NumTimes(quarter, 3), 3), Zero,
                          Zero, Zero, Zero, Zero))

getQuarter(date) == NumPlus(NumFloorDiv(getMonth(toDate(date).tv), 3), 1)

(***************************************************************************)
(* format and relativeTime.  A character outside ASCII is written as its   *)
(* code point, "U+65E5".                                                   *)
(***************************************************************************)
\* String(num).padStart(targetLength, "0")
padStart(num, targetLength) ==
    LET str == Digits(num)
    IN  [i \in 1..Max(0, targetLength - Len(str)) |-> "0"] \o str

weekDayMap == <<"U+65E5", "U+4E00", "U+4E8C", "U+4E09", "U+56DB", "U+4E94", "U+516D">>

\* the tokens of format's regular expression, in the order of its alternation
formatTokens ==
    << <<"Y", "Y", "Y", "Y">>, <<"M", "M">>, <<"D", "D">>, <<"H", "H">>, <<"h", "h">>,
       <<"m", "m">>, <<"s", "s">>, <<"S", "S", "S">>, <<"d">>, <<"d", "d">>, <<"A">> >>

IsPrefixAt(s, i, tok) ==
    i + Len(tok) - 1 <= Len(s) /\ SubSeq(s, i, i + Len(tok) - 1) = tok

\* the match of /\[([^\]]+)\]|YYYY|MM|DD|HH|hh|mm|ss|SSS|d|dd|A/ at position i:
\* the first alternative that matches there, <<>> when none does
formatMatchAt(s, i) ==
    LET closes == {j \in (i + 2)..Len(s) :
                      s[j] = "]" /\ \A k \in (i + 1)..(j - 1) : s[k] # "]"}
        toks == {n \in 1..Len(formatTokens) : IsPrefixAt(s, i, formatTokens[n])}
    IN  IF s[i] = "[" /\ closes # {}
        THEN SubSeq(s, i, CHOOSE j \in closes : TRUE)
        ELSE IF toks # {}
        THEN formatTokens[CHOOSE n \in toks : \A o \in toks : n <= o]
        ELSE <<>>

\* the replacement callback of format
formatToken(match, t) ==
    LET hour24 == getHours(t).v
        hour12 == IF hour24 % 12 = 0 THEN 12 ELSE hour24 % 12
        week == getDay(t).v
        isAM == hour24 < 12
    IN  IF match[1] = "[" THEN slice(match, 1, -1)
        ELSE CASE match = <<"Y", "Y", "Y", "Y">> -> padStart(getFullYear(t).v, 4)
               [] match = <<"M", "M">> -> padStart(getMonth(t).v + 1, 2)
               [] match = <<"D", "D">> -> padStart(getDate(t).v, 2)
               [] match = <<"H", "H">> -> padStart(hour24, 2)
               [] match = <<"h", "h">> -> padStart(hour12, 2)
               [] match = <<"m", "m">> -> padStart(getMinutes(t).v, 2)
               [] match = <<"s", "s">> -> padStart(getSeconds(t).v, 2)
               [] match = <<"S", "S", "S">> -> padStart(getMilliseconds(t).v, 3)
               [] match = <<"d">> -> Digits(week)
               [] match = <<"d", "d">> -> <<weekDayMap[week + 1]>>
               [] match = <<"A">> -> IF isAM THEN <<"U+4E0A", "U+5348">>
                                     ELSE <<"U+4E0B", "U+5348">>
               [] OTHER -> match

\* String.prototype.replace with the global regular expression
RECURSIVE formatReplace(_, _, _)
formatReplace(s, i, t) ==
    IF i > Len(s) THEN <<>>
    ELSE LET match == formatMatchAt(s, i)
         IN  IF match = <<>> THEN <<s[i]>> \o formatReplace(s, i + 1, t)
             ELSE formatToken(match, t) \o formatReplace(s, i + Len(match), t)

defaultFormat ==
    <<"Y", "Y", "Y", "Y", "-", "M", "M", "-", "D", "D", " ",
      "H", "H", ":", "m", "m", ":", "s", "s">>

format(date, pattern) ==
    LET d == toDate(date)
    IN  IF ~isValidDate(d) THEN Str(<<>>)
        ELSE Str(formatReplace(Default(pattern, Str(defaultFormat)).v, 1, d.tv))

relativeTime(date, baseDate) ==
    LET d1 == toDate(date)
        d2 == IF baseDate = Undefined THEN [ref |-> 0, tv |-> env.now]
              ELSE toDate(baseDate)
        diffMs == MsSub(d2.tv, d1.tv)
        absDiff == MsAbs(diffMs)
        isFuture == MsNegative(diffMs)
        suffix == IF isFuture THEN <<"U+540E">> ELSE <<"U+524D">>
        minute == 60 * 1000
        hour == 60 * minute
        day == 24 * hour
        week == 7 * day
        \* month = 30 * day and year = 365 * day are compared in whole days
        monthDays == 30
        yearDays == 365
    IN  IF ~isValidDate(d1) \/ ~isValidDate(d2) THEN Str(<<>>)
        ELSE IF MsLess(absDiff, minute) THEN Str(<<"U+521A", "U+521A">>)
        ELSE IF MsLess(absDiff, hour)
        THEN Str(Digits(MsFloorDiv(absDiff, minute)) \o <<"U+5206", "U+949F">> \o suffix)
        ELSE IF MsLess(absDiff, day)
        THEN Str(Digits(MsFloorDiv(absDiff, hour)) \o <<"U+5C0F", "U+65F6">> \o suffix)
        ELSE IF MsLess(absDiff, week)
        THEN Str(Digits(MsFloorDiv(absDiff, day)) \o <<"U+5929">> \o suffix)
        ELSE IF absDiff.d < monthDays
        THEN Str(Digits(MsFloorDiv(absDiff, week)) \o <<"U+5468">> \o suffix)
        ELSE IF absDiff.d < yearDays
        THEN Str(Digits(absDiff.d \div monthDays) \o <<"U+4E2A", "U+6708">> \o suffix)
        ELSE Str(Digits(absDiff.d \div yearDays) \o <<"U+5E74">> \o suffix)

(***************************************************************************)
(* Inputs of the date utilities.                                           *)
(***************************************************************************)
\* number of Date time values, twelve hours and a millisecond apart
MaxSteps == 3
\* Date objects in the heap when a utility is called
HeapSize == 2

TimeZones == {-300, 0, 480}
BaseDay == DaysFromCivil(2023, 12, 31)
NowValue == Time(DaysFromCivil(2024, 3, 15), 10 * MsPerHour + 30 * MsPerMinute + 15250)

\* the time values of the Date objects: around the turn of the year, and the
\* Invalid Date
DateValues == {Time(BaseDay, k * 12 * MsPerHour + k) : k \in 0..MaxSteps} \cup {NaN}

\* a Date of the first century: noon UTC of 15 June of the year 50
EarlyValue == Time(DaysFromCivil(50, 6, 15), 12 * MsPerHour)

ValidString == <<"2", "0", "2", "4", "-", "0", "1", "-", "0", "1">>
Unparseable == Str(<<"a", "b", "c">>)
DateArgs == {DateRef(i) : i \in 1..HeapSize} \cup {Str(ValidString), Unparseable}

\* the arguments of relativeTime: timestamps a minute, an hour, a day and a
\* week apart and a millisecond short of that, and dates 29, 30, 364 and 365
\* days before 2024-01-01
Timestamps ==
    {Num(0)} \cup {Num(u - e) : u \in {MsPerMinute, MsPerHour, MsPerDay, 7 * MsPerDay},
                               e \in {0, 1}}
EarlierDays ==
    {Str(<<"2", "0", "2", "3", "-", "1", "2", "-", "0", "3">>),
     Str(<<"2", "0", "2", "3", "-", "1", "2", "-", "0", "2">>),
     Str(<<"2", "0", "2", "3", "-", "0", "1", "-", "0", "2">>),
     Str(<<"2", "0", "2", "3", "-", "0", "1", "-", "0", "1">>)}
RelativeArgs == DateArgs \cup Timestamps \cup EarlierDays
BaseArgs == DateArgs \cup {Undefined, Num(0), Num(7 * MsPerDay)}

\* the strings YYYY-MM-DD of the calendar dates of some years, months and days
CalendarYears == {50, 2023, 2024}
CalendarMonths == {1, 2, 12}
CalendarDays == {1, 28, 29, 31}
DaysIn(y, m) == DaysFromCivil(y + (m \div 12), (m % 12) + 1, 1) - DaysFromCivil(y, m, 1)
DateString(y, m, d) == Str(padStart(y, 4) \o <<"-">> \o padStart(m, 2) \o <<"-">> \o padStart(d, 2))
CalendarStrings ==
    {DateString(y, m, d) : <<y, m, d>> \in
        {c \in CalendarYears \X CalendarMonths \X CalendarDays : c[3] <= DaysIn(c[1], c[2])}}

UnitNames == {"year", "month", "week", "day", "hour", "minute", "second"}
Units == {Name(u) : u \in UnitNames} \cup {Name("decade"), Undefined}
Amounts == {Num(n) : n \in (-1)..2}
Patterns ==
    { Undefined, Str(<<"Y", "Y", "Y", "Y", "-", "M", "M", "-", "D", "D">>),
      Str(<<"d", "d", " ", "[", "a", "t", "]", " ", "h", "h", " ", "A">>) }

\* the call returns r on heap h; a newly constructed Date is allocated
ReturnedDate(f, a, r, h) ==
    /\ fn' = f
    /\ args' = a
    /\ pc' = "done"
    /\ IF r.t = "newdate"
       THEN heap' = Append(h, r.v) /\ ret' = DateRef(Len(h) + 1)
       ELSE heap' = h /\ ret' = r
    /\ UNCHANGED <<loc, env>>

(***************************************************************************)
(* One call of a date utility.                                             *)
(***************************************************************************)
CallToDate ==
    /\ pc = "idle"
    /\ \E date \in DateArgs \cup CalendarStrings :
           ReturnedDate("toDate", [date |-> date],
                        IF toDate(date).ref # 0 THEN DateRef(toDate(date).ref)
                        ELSE NewObject(toDate(date).tv), heap)

CallFormat ==
    /\ pc = "idle"
    /\ \E date \in DateArgs, pattern \in Patterns :
           ReturnedDate("format", [date |-> date, format |-> pattern],
                        format(date, pattern), heap)

CallRelativeTime ==
    /\ pc = "idle"
    /\ \E date \in RelativeArgs, baseDate \in BaseArgs :
           ReturnedDate("relativeTime", [date |-> date, baseDate |-> baseDate],
                        relativeTime(date, baseDate), heap)

CallStartOf ==
    /\ pc = "idle"
    /\ \E date \in DateArgs, unit \in Units :
           ReturnedDate("startOf", [date |-> date, unit |-> unit],
                        startOf(date, unit), heap)

CallEndOf ==
    /\ pc = "idle"
    /\ \E date \in DateArgs, unit \in Units :
           ReturnedDate("endOf", [date |-> date, unit |-> unit], endOf(date, unit), heap)

CallAdd ==
    /\ pc = "idle"
    /\ \E date \in DateArgs, amount \in Amounts, unit \in Units :
           \E r \in {add(date, amount, unit)} :
               ReturnedDate("add", [date |-> date, amount |-> amount, unit |-> unit],
                            r.ret, r.heap)

CallSubtract ==
    /\ pc = "idle"
    /\ \E date \in DateArgs, amount \in Amounts, unit \in Units :
           \E r \in {subtract(date, amount, unit)} :
               ReturnedDate("subtract", [date |-> date, amount |-> amount, unit |-> unit],
                            r.ret, r.heap)

CallDiff ==
    /\ pc = "idle"
    /\ \E date1 \in DateArgs, date2 \in DateArgs, unit \in Units :
           ReturnedDate("diff", [date1 |-> date1, date2 |-> date2, unit |-> unit],
                        diff(date1, date2, unit), heap)

CallGetDayOfYear ==
    /\ pc = "idle"
    /\ \E date \in DateArgs :
           ReturnedDate("getDayOfYear", [date |-> date], getDayOfYear(date), heap)

CallGetWeekOfYear ==
    /\ pc = "idle"
    /\ \E date \in DateArgs :
           ReturnedDate("getWeekOfYear", [date |-> date], getWeekOfYear(date), heap)

CallIsLeapYear ==
    /\ pc = "idle"
    /\ \E date \in DateArgs :
           ReturnedDate("isLeapYear", [date |-> date], isLeapYear(date), heap)

CallGetDaysInMonth ==
    /\ pc = "idle"
    /\ \E date \in DateArgs :
           ReturnedDate("getDaysInMonth", [date |-> date], getDaysInMonth(date), heap)

CallGetDaysInYear ==
    /\ pc = "idle"
    /\ \E date \in DateArgs :
           ReturnedDate("getDaysInYear", [date |-> date], getDaysInYear(date), heap)

CallGetFirstDayOfQuarter ==
    /\ pc = "idle"
    /\ \E date \in DateArgs :
           ReturnedDate("getFirstDayOfQuarter", [date |-> date],
                        getFirstDayOfQuarter(date), heap)

CallGetLastDayOfQuarter ==
    /\ pc = "idle"
    /\ \E date \in DateArgs :
           ReturnedDate("getLastDayOfQuarter", [date |-> date],
                        getLastDayOfQuarter(date), heap)

CallGetQuarter ==
    /\ pc = "idle"
    /\ \E date \in DateArgs :
           ReturnedDate("getQuarter", [date |-> date], getQuarter(date), heap)

InitDate ==
    /\ fn = "none"
    /\ args = <<>>
    /\ ret = Undefined
    /\ pc = "idle"
    /\ loc = <<>>
    /\ heap \in [1..HeapSize -> DateValues]
    /\ env \in [tz : TimeZones, now : {NowValue}]

NextDate ==
    \/ CallToDate
    \/ CallFormat
    \/ CallRelativeTime
    \/ CallStartOf
    \/ CallEndOf
    \/ CallAdd
    \/ CallSubtract
    \/ CallDiff
    \/ CallGetDayOfYear
    \/ CallGetWeekOfYear
    \/ CallIsLeapYear
    \/ CallGetDaysInMonth
    \/ CallGetDaysInYear
    \/ CallGetFirstDayOfQuarter
    \/ CallGetLastDayOfQuarter
    \/ CallGetQuarter

SpecDate == InitDate /\ [][NextDate]_vars

\* startOf and endOf on Date objects of this century and of the first
InitRange ==
    /\ fn = "none"
    /\ args = <<>>
    /\ ret = Undefined
    /\ pc = "idle"
    /\ loc = <<>>
    /\ heap \in [1..HeapSize -> DateValues \cup {EarlyValue}]
    /\ env \in [tz : TimeZones, now : {NowValue}]

NextRange ==
    \/ CallStartOf
    \/ CallEndOf

SpecRange == InitRange /\ [][NextRange]_vars

(***************************************************************************)
(* Properties of the date utilities.                                      *)
(***************************************************************************)
\* a / unit truncated toward zero
MsTruncDiv(a, unit) ==
    IF MsNegative(a) THEN -MsFloorDiv(MsNeg(a), unit) ELSE MsFloorDiv(a, unit)

UnitMs(u) ==
    CASE u = "week" -> 7 * MsPerDay
      [] u = "day" -> MsPerDay
      [] u = "hour" -> MsPerHour
      [] u = "minute" -> MsPerMinute
      [] u = "second" -> 1000

diffDone ==
    /\ fn = "diff" /\ pc = "done"
    /\ IsTime(toDate(args.date1).tv) /\ IsTime(toDate(args.date2).tv)

\* C2: for valid dates d1, d2 and a unit of week, day, hour, minute or second,
\* diff(d1, d2, unit) is the millisecond difference d2 - d1 divided by the
\* length of the unit and truncated toward zero, also when d2 is earlier than
\* d1; for year and month it is the difference of the calendar components.
C2_DiffTruncatesTowardZero ==
    diffDone =>
        LET t1 == toDate(args.date1).tv
            t2 == toDate(args.date2).tv
            u == unitOf(args.unit)
            years == Parts(t2).year - Parts(t1).year
        IN  CASE u = "year" -> ret = Num(years)
              [] u = "month" -> ret = Num(years * 12 + Parts(t2).month - Parts(t1).month)
              [] u \in {"week", "day", "hour", "minute", "second"} ->
                    ret = Num(MsTruncDiv(MsSub(t2, t1), UnitMs(u)))
              [] OTHER -> TRUE

\* C3: add and subtract are pure: a Date object passed as the date argument
\* holds the same time value after the call as before it, for every unit and
\* amount, and the Date returned is a separate object.
C3_AddSubtractPure ==
    [][(fn' \in {"add", "subtract"} /\ args'.date.t = "dateref")
          => /\ heap'[args'.date.v] = heap[args'.date.v]
             /\ ret'.t = "dateref" /\ ret'.v # args'.date.v]_vars

\* a string that does not parse to a valid date
IsUnparseable(x) == TypeOf(x) = "string" /\ ~IsTime(toDate(x).tv)

DateFirstArg == IF fn \in {"diff"} THEN args.date1 ELSE args.date

\* C6: every date utility given an unparseable date string returns its
\* fallback: format and relativeTime the empty string; diff, getDayOfYear,
\* getWeekOfYear, getDaysInMonth, getDaysInYear and getQuarter a number that
\* is not NaN; startOf, endOf, add, subtract, getFirstDayOfQuarter and
\* getLastDayOfQuarter a valid Date.
C6_UnparseableDateFallback ==
    /\ (fn \in {"format", "relativeTime"} /\ IsUnparseable(DateFirstArg))
          => ret = Str(<<>>)
    /\ (fn \in {"diff", "getDayOfYear", "getWeekOfYear", "getDaysInMonth",
                 "getDaysInYear", "getQuarter"} /\ IsUnparseable(DateFirstArg))
          => ret.t = "number"
    /\ (fn \in {"startOf", "endOf", "add", "subtract", "getFirstDayOfQuarter",
                 "getLastDayOfQuarter"} /\ IsUnparseable(DateFirstArg))
          => ret.t = "dateref" /\ IsTime(heap[ret.v])

(***************************************************************************)
(* String utilities.  A method call on null or undefined, and a call of a  *)
(* String method that the value does not have, raise a TypeError.          *)
(***************************************************************************)
LowerCase ==
    <<"a", "b", "c", "d", "e", "f", "g", "h", "i", "j", "k", "l", "m",
      "n", "o", "p", "q", "r", "s", "t", "u", "v", "w", "x", "y", "z">>
UpperCase ==
    <<"A", "B", "C", "D", "E", "F", "G", "H", "I", "J", "K", "L", "M",
      "N", "O", "P", "Q", "R", "S", "T", "U", "V", "W", "X", "Y", "Z">>

\* [A-Z] and [a-z]
IsUpper(c) == \E i \in 1..26 : UpperCase[i] = c
IsLower(c) == \E i \in 1..26 : LowerCase[i] = c
\* \s, for the characters of the model
IsSpace(c) == c \in {" ", "\t", "\n"}

toUpperCase(s) ==
    [i \in 1..Len(s) |->
        IF IsLower(s[i]) THEN UpperCase[CHOOSE k \in 1..26 : LowerCase[k] = s[i]]
        ELSE s[i]]
toLowerCase(s) ==
    [i \in 1..Len(s) |->
        IF IsUpper(s[i]) THEN LowerCase[CHOOSE k \in 1..26 : UpperCase[k] = s[i]]
        ELSE s[i]]

\* the concatenation of a sequence of strings
RECURSIVE Join(_)
Join(parts) == IF parts = <<>> THEN <<>> ELSE Head(parts) \o Join(Tail(parts))

\* ToString(x), as Array.prototype.join applies it to its separator
\* (undefined is the separator ",")
JoinSeparator(x) ==
    CASE x.t = "string" -> x.v
      [] x.t = "undefined" -> <<",">>
      [] x.t = "null" -> <<"n", "u", "l", "l">>
      [] x.t = "number" -> Digits(x.v)
      [] OTHER -> <<"[", "o", "b", "j", "e", "c", "t", " ",
                    "O", "b", "j", "e", "c", "t", "]">>

IsString(x) == x.t = "string"

capitalize(str) ==
    IF TypeOf(str) # "string" \/ ~Truthy(str) THEN Str(<<>>)
    ELSE Str(toUpperCase(<<str.v[1]>>) \o slice(str.v, 1, Len(str.v)))

\* str.replace(/([A-Z])/g, sep + "$1")
beforeUpper(s, sep) ==
    Join([i \in 1..Len(s) |-> IF IsUpper(s[i]) THEN <<sep, s[i]>> ELSE <<s[i]>>])

camelToKebab(str) ==
    IF ~IsString(str) THEN Throw("TypeError")
    ELSE Str(toLowerCase(beforeUpper(str.v, "-")))

\* str.replace(/-([a-z])/g, (_, letter) => letter.toUpperCase()) from index i
RECURSIVE kebabReplace(_, _)
kebabReplace(s, i) ==
    IF i > Len(s) THEN <<>>
    ELSE IF s[i] = "-" /\ i < Len(s) /\ IsLower(s[i + 1])
    THEN toUpperCase(<<s[i + 1]>>) \o kebabReplace(s, i + 2)
    ELSE <<s[i]>> \o kebabReplace(s, i + 1)

kebabToCamel(str) ==
    IF ~IsString(str) THEN Throw("TypeError") ELSE Str(kebabReplace(str.v, 1))

defaultSuffix == <<".", ".", ".">>

truncate(str, maxLength, suffix) ==
    IF ~IsString(str) THEN Throw("TypeError")
    ELSE IF Len(str.v) <= maxLength.v THEN str
    ELSE Str(slice(str.v, 0, maxLength.v - Len(Default(suffix, Str(defaultSuffix)).v))
                \o Default(suffix, Str(defaultSuffix)).v)

\* s without its longest prefix / suffix of characters of class
RECURSIVE StripLeft(_, _)
StripLeft(s, class) ==
    IF s # <<>> /\ Head(s) \in class THEN StripLeft(Tail(s), class) ELSE s
RECURSIVE StripRight(_, _)
StripRight(s, class) ==
    IF s # <<>> /\ s[Len(s)] \in class
    THEN StripRight(SubSeq(s, 1, Len(s) - 1), class)
    ELSE s

\* the characters of chars hold no metacharacter of a character class
CharClass(chars) == {chars[i] : i \in 1..Len(chars)}

trim(str, chars) ==
    IF ~IsString(str) THEN Throw("TypeError")
    ELSE Str(StripRight(StripLeft(str.v, CharClass(Default(chars, Str(<<" ">>)).v)),
                        CharClass(Default(chars, Str(<<" ">>)).v)))

repeat(str, count) ==
    IF count.v < 0 THEN Str(<<>>)
    ELSE Str(Join([i \in 1..count.v |-> JoinSeparator(str)]))

entityMap(c) ==
    CASE c = "&" -> <<"&", "a", "m", "p", ";">>
      [] c = "<" -> <<"&", "l", "t", ";">>
      [] c = ">" -> <<"&", "g", "t", ";">>
      [] c = "\"" -> <<"&", "q", "u", "o", "t", ";">>
      [] c = "'" -> <<"&", "#", "3", "9", ";">>
      [] c = "/" -> <<"&", "#", "x", "2", "F", ";">>
      [] OTHER -> <<c>>

escape(str) ==
    IF ~IsString(str) THEN Throw("TypeError")
    ELSE Str(Join([i \in 1..Len(str.v) |-> entityMap(str.v[i])]))

reverse(str) ==
    IF ~IsString(str) THEN Throw("TypeError")
    ELSE Str([i \in 1..Len(str.v) |-> str.v[Len(str.v) + 1 - i]])

\* pad on a string str, with n = length - str.length > 0: for chars = ""
\* Math.ceil(n / 0) is Infinity and new Array(Infinity) raises a RangeError
padBy(str, n, chars, end) ==
    IF chars = <<>> THEN Throw("RangeError")
    ELSE IF Truthy(end)
    THEN Str(str \o slice(repeat(Str(chars), Num((n + Len(chars) - 1) \div Len(chars))).v,
                          0, n))
    ELSE Str(slice(repeat(Str(chars), Num((n + Len(chars) - 1) \div Len(chars))).v,
                   0, n) \o str)

\* on a value without a length, length - str.length is NaN and new Array(NaN) raises
pad(str, length, chars, end) ==
    IF str.t \in {"null", "undefined"} THEN Throw("TypeError")
    ELSE IF ~IsString(str) THEN Throw("RangeError")
    ELSE IF length.v - Len(str.v) <= 0 THEN str
    ELSE padBy(str.v, length.v - Len(str.v), Default(chars, Str(<<" ">>)).v,
               Default(end, Bool(TRUE)))

startsWith(str, searchStr, position) ==
    IF ~IsString(str) THEN Throw("TypeError")
    ELSE Bool(slice(str.v, Default(position, Zero).v,
                    Default(position, Zero).v + Len(searchStr.v)) = searchStr.v)

\* str.lastIndexOf(searchStr)
lastIndexOf(s, search) ==
    LET found == {i \in 0..(Len(s) - Len(search)) :
                     SubSeq(s, i + 1, i + Len(search)) = search}
    IN  IF found = {} THEN -1 ELSE CHOOSE i \in found : \A j \in found : j <= i

endsWith(str, searchStr) ==
    IF ~IsString(str) THEN Throw("TypeError")
    ELSE Bool(/\ lastIndexOf(str.v, searchStr.v) # -1
              /\ lastIndexOf(str.v, searchStr.v) = Len(str.v) - Len(searchStr.v))

\* .replace(/^_/, "")
StripUnderscore(s) == IF s # <<>> /\ s[1] = "_" THEN Tail(s) ELSE s

toSnakeCase(str) ==
    IF ~IsString(str) THEN Throw("TypeError")
    ELSE Str(StripUnderscore(toLowerCase(beforeUpper(str.v, "_"))))

\* str.trim().split(/\s+/).length: the pieces between the runs of white space
splitLength(t) ==
    1 + Cardinality({i \in 2..Len(t) : IsSpace(t[i]) /\ ~IsSpace(t[i - 1])})

wordCount(str) ==
    IF ~IsString(str) THEN Throw("TypeError")
    ELSE Num(splitLength(StripRight(StripLeft(str.v, {" ", "\t", "\n"}),
                                    {" ", "\t", "\n"})))

(***************************************************************************)
(* One call of a string utility.                                           *)
(***************************************************************************)
Chars == {"a", "B", "-", " ", "<"}
Strings == {Str(s) : s \in SeqsUpTo(Chars, MaxLen)}
NonStrings == {Null, Undefined, Num(5), Obj(<<>>)}
StringArgs == Strings \cup NonStrings
Searches == {Str(s) : s \in SeqsUpTo({"a", "-"}, 2)}
Lengths == {Num(n) : n \in 0..(MaxLen + 1)}
Counts == {Num(n) : n \in (-1)..2}

CallCapitalize ==
    /\ pc = "idle"
    /\ \E str \in StringArgs : Returned("capitalize", [str |-> str], capitalize(str))

CallCamelToKebab ==
    /\ pc = "idle"
    /\ \E str \in StringArgs :
           Returned("camelToKebab", [str |-> str], camelToKebab(str))

CallKebabToCamel ==
    /\ pc = "idle"
    /\ \E str \in StringArgs :
           Returned("kebabToCamel", [str |-> str], kebabToCamel(str))

CallTruncate ==
    /\ pc = "idle"
    /\ \E str \in StringArgs, maxLength \in Lengths,
          suffix \in {Undefined, Str(<<>>), Str(<<".">>)} :
           Returned("truncate", [str |-> str, maxLength |-> maxLength, suffix |-> suffix],
                    truncate(str, maxLength, suffix))

CallTrim ==
    /\ pc = "idle"
    /\ \E str \in StringArgs, chars \in {Undefined, Str(<<>>), Str(<<"-">>), Str(<<"a", "-">>)} :
           Returned("trim", [str |-> str, chars |-> chars], trim(str, chars))

CallRepeat ==
    /\ pc = "idle"
    /\ \E str \in StringArgs, count \in Counts :
           Returned("repeat", [str |-> str, count |-> count], repeat(str, count))

CallEscape ==
    /\ pc = "idle"
    /\ \E str \in StringArgs : Returned("escape", [str |-> str], escape(str))

CallReverse ==
    /\ pc = "idle"
    /\ \E str \in StringArgs : Returned("reverse", [str |-> str], reverse(str))

CallPad ==
    /\ pc = "idle"
    /\ \E str \in StringArgs, length \in Lengths,
          chars \in {Undefined, Str(<<>>), Str(<<"-">>), Str(<<"a", "B">>)},
          end \in {Undefined, Bool(FALSE)} :
           Returned("pad", [str |-> str, length |-> length, chars |-> chars, end |-> end],
                    pad(str, length, chars, end))

CallStartsWith ==
    /\ pc = "idle"
    /\ \E str \in StringArgs, searchStr \in Searches, position \in {Undefined, Num(1)} :
           Returned("startsWith",
                    [str |-> str, searchStr |-> searchStr, position |-> position],
                    startsWith(str, searchStr, position))

CallEndsWith ==
    /\ pc = "idle"
    /\ \E str \in StringArgs, searchStr \in Searches :
           Returned("endsWith", [str |-> str, searchStr |-> searchStr],
                    endsWith(str, searchStr))

CallToSnakeCase ==
    /\ pc = "idle"
    /\ \E str \in StringArgs : Returned("toSnakeCase", [str |-> str], toSnakeCase(str))

CallWordCount ==
    /\ pc = "idle"
    /\ \E str \in StringArgs : Returned("wordCount", [str |-> str], wordCount(str))

InitString == Idle

NextString ==
    \/ CallCapitalize
    \/ CallCamelToKebab
    \/ CallKebabToCamel
    \/ CallTruncate
    \/ CallTrim
    \/ CallRepeat
    \/ CallEscape
    \/ CallReverse
    \/ CallPad
    \/ CallStartsWith
    \/ CallEndsWith
    \/ CallToSnakeCase
    \/ CallWordCount

SpecString == InitString /\ [][NextString]_vars

StringFns ==
    {"capitalize", "camelToKebab", "kebabToCamel", "truncate", "trim", "repeat",
     "escape", "reverse", "pad", "startsWith", "endsWith", "toSnakeCase", "wordCount"}

\* C4: every string utility called with null, undefined or another value that
\* is not a string as its string argument returns a value and raises no
\* exception.
C4_NonStringNeverThrows ==
    (fn \in StringFns /\ pc = "done" /\ TypeOf(args.str) # "string") => ~IsThrow(ret)

(***************************************************************************)
(* The root module.  A module is its table of exports, from export name to *)
(* the declaration the name is bound to; Decl(m, n) is the function or the *)
(* object declared as n in module m, Method(m, o, n) the method n of the   *)
(* object o of m, Namespace(m) the module namespace object of m.           *)
(***************************************************************************)
Namespace(m) == [t |-> "namespace", v |-> m]
Decl(m, n) == [t |-> "decl", v |-> <<m, n>>]
Method(m, o, n) == [t |-> "method", v |-> <<m, o, n>>]

Modules == {"stringUtils", "arrayUtils", "dateUtils", "domUtils", "verifyUtils"}

\* the functions each module declares and exports
stringFunctions ==
    {"capitalize", "camelToKebab", "kebabToCamel", "truncate", "trim", "repeat",
     "escape", "reverse", "pad", "startsWith", "endsWith", "toSnakeCase", "wordCount"}
arrayFunctions ==
    {"get", "unique", "chunk", "flatten", "intersection", "compact", "sortBy",
     "findIndex", "difference", "groupBy", "sample", "move", "sumBy"}
dateFunctions ==
    {"format", "toDate", "isValidDate", "relativeTime", "startOf", "endOf", "add",
     "subtract", "diff", "getDayOfYear", "getWeekOfYear", "isLeapYear",
     "getDaysInMonth", "getDaysInYear", "isWeekend", "isToday", "isAfter", "isBefore",
     "isBetween", "getDatesBetween", "getFirstDayOfMonth", "getLastDayOfMonth",
     "getFirstDayOfQuarter", "getLastDayOfQuarter", "getQuarter"}

\* the objects of methods that verifyUtils declares
stringValidators ==
    {"isString", "isLength", "isEmail", "isPhone", "isUrl", "isIdCard", "isZipCode",
     "isAlpha", "isAlphanumeric", "validatePassword", "getPasswordStrength"}
numberValidators == {"isNumber", "isInteger", "isPositive", "isNegative", "inRange", "isPort"}
objectValidators == {"isObject", "hasProps", "isEmpty"}
arrayValidators == {"isArray", "isLength", "includes"}
dateValidators == {"isDate", "inRange", "isFuture", "isPast"}

\* export const verify = { isEmpty, string: stringValidators, ... }
verify ==
    ("isEmpty" :> Decl("verifyUtils", "isEmpty"))
        @@ ("string" :> Decl("verifyUtils", "stringValidators"))
        @@ ("number" :> Decl("verifyUtils", "numberValidators"))
        @@ ("object" :> Decl("verifyUtils", "objectValidators"))
        @@ ("array" :> Decl("verifyUtils", "arrayValidators"))
        @@ ("date" :> Decl("verifyUtils", "dateValidators"))

\* export const domUtils = { selector, className, ... }
domUtils ==
    [n \in {"selector", "className", "style", "attr", "event", "element", "form",
            "animation"} |-> Decl("domUtils", n)]

\* the exports of module m
Exports(m) ==
    CASE m = "stringUtils" -> [n \in stringFunctions |-> Decl(m, n)]
      [] m = "arrayUtils" -> [n \in arrayFunctions |-> Decl(m, n)]
      [] m = "dateUtils" ->
            [n \in dateFunctions |-> Decl(m, n)] @@ ("dateUtils" :> Decl(m, "dateUtils"))
      [] m = "domUtils" ->
            ("domUtils" :> Decl(m, "domUtils"))
                @@ ("$" :> domUtils["selector"]) @@ ("cls" :> domUtils["className"])
                @@ ("css" :> domUtils["style"]) @@ ("attrs" :> domUtils["attr"])
                @@ ("evt" :> domUtils["event"]) @@ ("el" :> domUtils["element"])
                @@ ("formUtils" :> domUtils["form"]) @@ ("anim" :> domUtils["animation"])
      [] m = "verifyUtils" ->
            ("isEmpty" :> verify["isEmpty"]) @@ ("verify" :> Decl(m, "verify"))
                @@ [n \in {"string", "number", "object", "array", "date"} |-> verify[n]]

\* the properties of the objects that the modules declare
Properties(x) ==
    CASE x = Decl("verifyUtils", "verify") -> verify
      [] x = Decl("verifyUtils", "stringValidators") ->
            [n \in stringValidators |-> Method("verifyUtils", "stringValidators", n)]
      [] x = Decl("verifyUtils", "numberValidators") ->
            [n \in numberValidators |-> Method("verifyUtils", "numberValidators", n)]
      [] x = Decl("verifyUtils", "objectValidators") ->
            [n \in objectValidators |-> Method("verifyUtils", "objectValidators", n)]
      [] x = Decl("verifyUtils", "arrayValidators") ->
            [n \in arrayValidators |-> Method("verifyUtils", "arrayValidators", n)]
      [] x = Decl("verifyUtils", "dateValidators") ->
            [n \in dateValidators |-> Method("verifyUtils", "dateValidators", n)]
      [] x = Decl("dateUtils", "dateUtils") -> [n \in dateFunctions |-> Decl("dateUtils", n)]
      [] x = Decl("domUtils", "domUtils") -> domUtils
      [] x.t = "namespace" -> Exports(x.v)
      [] x.t = "object" -> x.v
      [] OTHER -> <<>>

\* the property read x.name: a TypeError on null and undefined, undefined for
\* a property the object does not have
Member(x, name) ==
    IF IsThrow(x) THEN x
    ELSE IF x.t \in {"undefined", "null"} THEN Throw("TypeError")
    ELSE IF name \in DOMAIN Properties(x) THEN Properties(x)[name]
    ELSE Undefined

\* export { stringUtils, arrayUtils, dateUtils, domUtils, verifyUtils }
LocalExports == [m \in Modules |-> Namespace(m)]

\* export * from each module: the bindings the modules export under name
StarExports(name) ==
    {Exports(m)[name] : m \in {o \in Modules : name \in DOMAIN Exports(o)}}

\* import { name } from the root module: a local export shadows the star
\* exports; a name that no module exports, or that two modules bind to
\* different declarations, is not exported and the import fails to link
Import(name) ==
    IF name \in DOMAIN LocalExports THEN LocalExports[name]
    ELSE IF Cardinality(StarExports(name)) = 1
    THEN CHOOSE x \in StarExports(name) : TRUE
    ELSE Throw("SyntaxError")

\* export default { string: stringUtils, ... }
DefaultExport ==
    Obj(("string" :> Namespace("stringUtils")) @@ ("array" :> Namespace("arrayUtils"))
            @@ ("date" :> Namespace("dateUtils")) @@ ("dom" :> Namespace("domUtils"))
            @@ ("verify" :> Namespace("verifyUtils")))

(***************************************************************************)
(* One use of the root module.                                             *)
(***************************************************************************)
Domains == DOMAIN DefaultExport.v
Names ==
    UNION {DOMAIN Exports(m) : m \in Modules} \cup stringValidators
        \cup numberValidators \cup objectValidators \cup arrayValidators
        \cup dateValidators \cup DOMAIN domUtils

\* import { stringUtils } from "su-js-utils"; stringUtils.capitalize
ImportGroup ==
    /\ pc = "idle"
    /\ \E group \in Modules, name \in Names :
           Returned("importGroup", [group |-> group, name |-> name],
                    Member(Import(group), name))

\* import { capitalize } from "su-js-utils"
ImportFlat ==
    /\ pc = "idle"
    /\ \E name \in Names : Returned("importFlat", [name |-> name], Import(name))

\* import su from "su-js-utils"; su.string.capitalize
ImportDefault ==
    /\ pc = "idle"
    /\ \E domain \in Domains, name \in Names :
           Returned("importDefault", [domain |-> domain, name |-> name],
                    Member(Member(DefaultExport, domain), name))

\* import { string } from "su-js-utils"; string.capitalize
ImportDomain ==
    /\ pc = "idle"
    /\ \E domain \in Domains, name \in Names :
           Returned("importDomain", [domain |-> domain, name |-> name],
                    Member(Import(domain), name))

InitExports == Idle

NextExports == ImportGroup \/ ImportFlat \/ ImportDefault \/ ImportDomain

SpecExports == InitExports /\ [][NextExports]_vars

\* the utility group of a domain
GroupOf(domain) ==
    CASE domain = "string" -> "stringUtils"
      [] domain = "array" -> "arrayUtils"
      [] domain = "date" -> "dateUtils"
      [] domain = "dom" -> "domUtils"
      [] domain = "verify" -> "verifyUtils"

\* the group that declares the utility function name, if any
GroupsOf(name) ==
    {m \in Modules : name \in DOMAIN Exports(m) /\ Exports(m)[name] = Decl(m, name)
                        /\ Properties(Decl(m, name)) = <<>>}

\* C7: the three views of the root module resolve to the same function: a
\* utility reached through the default object keyed by domain, through the
\* named import of its domain (string, array, date, dom, verify) and through
\* its flat named export is the function of the group namespace, so that the
\* named import string gives string.capitalize, the flat export capitalize.
C7_ThreeViewsAgree ==
    /\ fn \in {"importDefault", "importDomain"}
          => ret = Member(Namespace(GroupOf(args.domain)), args.name)
    /\ fn = "importFlat"
          => \A g \in GroupsOf(args.name) : ret = Member(Namespace(g), args.name)

(***************************************************************************)
(* Password validators of verifyUtils.  The result objects are objects of  *)
(* JavaScript values; inside the functions a details record holds plain    *)
(* booleans.                                                               *)
(***************************************************************************)
isString(value) == TypeOf(value) = "string"

\* the own property name of the options object, or the default of the
\* destructuring pattern when the object has none
Option(o, name, default) == IF name \in DOMAIN o THEN o[name] ELSE default

\* [!@#$%^&*(),.?":{}|<>]
SpecialChars ==
    {"!", "@", "#", "$", "%", "^", "&", "*", "(", ")", ",", ".", "?", "\"", ":",
     "{", "}", "|", "<", ">"}

\* regexp.test(password) for the character classes of the validators
hasNumber(password) == \E i \in 1..Len(password) : IsDigit(password[i])
hasLetter(password) ==
    \E i \in 1..Len(password) : IsLower(password[i]) \/ IsUpper(password[i])
hasLowerCase(password) == \E i \in 1..Len(password) : IsLower(password[i])
hasUpperCase(password) == \E i \in 1..Len(password) : IsUpper(password[i])
hasSpecialChar(password) == \E i \in 1..Len(password) : password[i] \in SpecialChars

passwordDetails(password, minLength) ==
    [length |-> minLength.t = "number" /\ Len(password) >= minLength.v,
     hasNumber |-> hasNumber(password),
     hasLetter |-> hasLetter(password),
     hasLowerCase |-> hasLowerCase(password),
     hasUpperCase |-> hasUpperCase(password),
     hasSpecialChar |-> hasSpecialChar(password)]

\* the messages of validatePassword
notStringMessage ==
    <<"U+5BC6", "U+7801", "U+5FC5", "U+987B", "U+662F", "U+5B57", "U+7B26", "U+4E32">>
lengthMessage(minLength) ==
    <<"U+5BC6", "U+7801", "U+957F", "U+5EA6", "U+81F3", "U+5C11", "U+4E3A", " ">>
        \o ToPropertyKey(minLength) \o <<" ", "U+4E2A", "U+5B57", "U+7B26">>
numberMessage == <<"U+5FC5", "U+987B", "U+5305", "U+542B", "U+6570", "U+5B57">>
letterMessage == <<"U+5FC5", "U+987B", "U+5305", "U+542B", "U+5B57", "U+6BCD">>
lowerCaseMessage ==
    <<"U+5FC5", "U+987B", "U+5305", "U+542B", "U+5C0F", "U+5199", "U+5B57", "U+6BCD">>
upperCaseMessage ==
    <<"U+5FC5", "U+987B", "U+5305", "U+542B", "U+5927", "U+5199", "U+5B57", "U+6BCD">>
specialCharMessage ==
    <<"U+5FC5", "U+987B", "U+5305", "U+542B", "U+7279", "U+6B8A", "U+5B57", "U+7B26">>
validMessage == <<"U+5BC6", "U+7801", "U+7B26", "U+5408", "U+8981", "U+6C42">>
invalidPrefix ==
    <<"U+5BC6", "U+7801", "U+4E0D", "U+7B26", "U+5408", "U+4EE5", "U+4E0B", "U+8981",
      "U+6C42", "U+FF1A">>

\* requirements.join(sep) on an array of strings
RECURSIVE joinWith(_, _)
joinWith(parts, sep) ==
    IF parts = <<>> THEN <<>>
    ELSE IF Len(parts) = 1 THEN parts[1].v
    ELSE parts[1].v \o sep \o joinWith(Tail(parts), sep)

\* requireX && !details.hasX
unmet(o, require, has) == Truthy(Option(o, require, Bool(TRUE))) /\ ~has

\* if (failed) isValid = false
clear(isValid, failed) == IF failed THEN FALSE ELSE isValid

\* isValid without the statement that clears it for a missing upper-case letter
passwordIsValidNoUpperCase(details, o) ==
    clear(clear(clear(clear(details.length,
                            unmet(o, "requireNumber", details.hasNumber)),
                      unmet(o, "requireLetter", details.hasLetter)),
                unmet(o, "requireLowerCase", details.hasLowerCase)),
          unmet(o, "requireSpecialChar", details.hasSpecialChar))

\* isValid after the statements: it starts as details.length and every unmet
\* requirement clears it
passwordIsValid(details, o) ==
    clear(clear(clear(clear(clear(details.length,
                                  unmet(o, "requireNumber", details.hasNumber)),
                            unmet(o, "requireLetter", details.hasLetter)),
                      unmet(o, "requireLowerCase", details.hasLowerCase)),
                unmet(o, "requireUpperCase", details.hasUpperCase)),
          unmet(o, "requireSpecialChar", details.hasSpecialChar))

\* requirements that stops at the first unmet requirement
passwordRequirementsFirst(details, o, minLength) ==
    IF ~details.length THEN <<Str(lengthMessage(minLength))>>
    ELSE IF unmet(o, "requireNumber", details.hasNumber) THEN <<Str(numberMessage)>>
    ELSE IF unmet(o, "requireLetter", details.hasLetter) THEN <<Str(letterMessage)>>
    ELSE IF unmet(o, "requireLowerCase", details.hasLowerCase)
    THEN <<Str(lowerCaseMessage)>>
    ELSE IF unmet(o, "requireUpperCase", details.hasUpperCase)
    THEN <<Str(upperCaseMessage)>>
    ELSE IF unmet(o, "requireSpecialChar", details.hasSpecialChar)
    THEN <<Str(specialCharMessage)>>
    ELSE <<>>

\* requirements after the six statements, each of which may push a message
passwordRequirements(details, o, minLength) ==
    (IF ~details.length THEN <<Str(lengthMessage(minLength))>> ELSE <<>>)
        \o (IF unmet(o, "requireNumber", details.hasNumber)
            THEN <<Str(numberMessage)>> ELSE <<>>)
        \o (IF unmet(o, "requireLetter", details.hasLetter)
            THEN <<Str(letterMessage)>> ELSE <<>>)
        \o (IF unmet(o, "requireLowerCase", details.hasLowerCase)
            THEN <<Str(lowerCaseMessage)>> ELSE <<>>)
        \o (IF unmet(o, "requireUpperCase", details.hasUpperCase)
            THEN <<Str(upperCaseMessage)>> ELSE <<>>)
        \o (IF unmet(o, "requireSpecialChar", details.hasSpecialChar)
            THEN <<Str(specialCharMessage)>> ELSE <<>>)

\* a details record as an object of booleans
DetailsObject(details) == Obj([k \in DOMAIN details |-> Bool(details[k])])

passwordResult(details, o, minLength) ==
    Obj([isValid |-> Bool(passwordIsValid(details, o)),
         message |-> IF passwordIsValid(details, o) THEN Str(validMessage)
                     ELSE Str(invalidPrefix
                                \o joinWith(passwordRequirements(details, o, minLength),
                                            <<"U+3001">>)),
         details |-> DetailsObject(details),
         requirements |-> Arr(passwordRequirements(details, o, minLength))])

validatePassword(password, options) ==
    IF ~isString(password)
    THEN Obj([isValid |-> Bool(FALSE), message |-> Str(notStringMessage),
              details |-> Obj(<<>>)])
    ELSE passwordResult(
             passwordDetails(password.v,
                             Option(Default(options, Obj(<<>>)).v, "minLength", Num(8))),
             Default(options, Obj(<<>>)).v,
             Option(Default(options, Obj(<<>>)).v, "minLength", Num(8)))

strengthDetails(password) ==
    [length |-> Len(password) >= 8,
     hasNumber |-> hasNumber(password),
     hasLowerCase |-> hasLowerCase(password),
     hasUpperCase |-> hasUpperCase(password),
     hasSpecialChar |-> hasSpecialChar(password)]

\* Object.values(details).filter(Boolean).length
varietyCount(details) == Cardinality({k \in DOMAIN details : details[k]})

\* the score with a point taken off for an upper-case letter
passwordScoreUpperPenalty(password, details) ==
    Min(2, Len(password) \div 4)
        + (IF details.hasNumber THEN 1 ELSE 0)
        + (IF details.hasLowerCase THEN 1 ELSE 0)
        - (IF details.hasUpperCase THEN 1 ELSE 0)
        + (IF details.hasSpecialChar THEN 2 ELSE 0)
        + Max(0, varietyCount(details) - 2)

\* the score with one point for a special character
passwordScoreOnePoint(password, details) ==
    Min(2, Len(password) \div 4)
        + (IF details.hasNumber THEN 1 ELSE 0)
        + (IF details.hasLowerCase THEN 1 ELSE 0)
        + (IF details.hasUpperCase THEN 1 ELSE 0)
        + (IF details.hasSpecialChar THEN 1 ELSE 0)
        + Max(0, varietyCount(details) - 2)

passwordScore(password, details) ==
    Min(2, Len(password) \div 4)
        + (IF details.hasNumber THEN 1 ELSE 0)
        + (IF details.hasLowerCase THEN 1 ELSE 0)
        + (IF details.hasUpperCase THEN 1 ELSE 0)
        + (IF details.hasSpecialChar THEN 2 ELSE 0)
        + Max(0, varietyCount(details) - 2)

strengthLevel(score) ==
    IF score <= 2 THEN <<"w", "e", "a", "k">>
    ELSE IF score <= 4 THEN <<"m", "e", "d", "i", "u", "m">>
    ELSE IF score <= 6 THEN <<"s", "t", "r", "o", "n", "g">>
    ELSE <<"v", "e", "r", "y", "-", "s", "t", "r", "o", "n", "g">>

strengthMessage(score) ==
    IF score <= 2 THEN <<"U+5F31", "U+5BC6", "U+7801">>
    ELSE IF score <= 4 THEN <<"U+4E2D", "U+7B49", "U+5F3A", "U+5EA6">>
    ELSE IF score <= 6 THEN <<"U+5F3A", "U+5BC6", "U+7801">>
    ELSE <<"U+975E", "U+5E38", "U+5F3A", "U+7684", "U+5BC6", "U+7801">>

strengthResult(score, details) ==
    Obj([score |-> Num(score), level |-> Str(strengthLevel(score)),
         message |-> Str(strengthMessage(score)), details |-> DetailsObject(details)])

getPasswordStrength(password) ==
    IF ~isString(password)
    THEN Obj([score |-> Num(0), level |-> Str(<<"i", "n", "v", "a", "l", "i", "d">>),
              message |-> Str(<<"U+65E0", "U+6548", "U+7684", "U+5BC6", "U+7801">>)])
    ELSE strengthResult(passwordScore(password.v, strengthDetails(password.v)),
                        strengthDetails(password.v))

(***************************************************************************)
(* One call of a password validator.                                       *)
(***************************************************************************)
\* longest password before padding
MaxPrefix == 2
\* longest padding of a password
MaxPad == 8

\* a digit, a lower-case letter, an upper-case letter, a special character
\* and a character of no class
PasswordChars == {"1", "a", "A", "!", "_"}
Padding(n) == [i \in 1..n |-> "_"]

Range(s) == {s[i] : i \in 1..Len(s)}

\* a password with every character class
AllClasses == <<"1", "a", "A", "!">>
\* the passwords without padding: the short ones, and one for every set of
\* character classes
Prefixes ==
    SeqsUpTo(PasswordChars, MaxPrefix)
        \cup {SelectSeq(AllClasses, LAMBDA c : c \in S) : S \in SUBSET Range(AllClasses)}

Passwords == {Str(p \o Padding(n)) : p \in Prefixes, n \in 0..MaxPad}
PaddedPasswords ==
    {Str(p \o Padding(n)) : p \in Prefixes, n \in {0, MaxPad \div 2, MaxPad}}

FlagNames ==
    {"requireNumber", "requireLetter", "requireLowerCase", "requireUpperCase",
     "requireSpecialChar"}
\* every flag true, false or omitted; minLength 4 or omitted; or no options
OptionSets ==
    {Obj(flags @@ minLength) :
        flags \in UNION {[S -> {Bool(TRUE), Bool(FALSE)}] : S \in SUBSET FlagNames},
        minLength \in {<<>>, "minLength" :> Num(4)}}
        \cup {Undefined}

CallValidatePassword ==
    /\ pc = "idle"
    /\ \E password \in PaddedPasswords \cup NonStrings, options \in OptionSets :
           Returned("validatePassword", [password |-> password, options |-> options],
                    validatePassword(password, options))

CallGetPasswordStrength ==
    /\ pc = "idle"
    /\ \E password \in Passwords \cup NonStrings :
           Returned("getPasswordStrength", [password |-> password],
                    getPasswordStrength(password))

InitPassword == Idle

NextPassword == CallValidatePassword \/ CallGetPasswordStrength

SpecPassword == InitPassword /\ [][NextPassword]_vars

(***************************************************************************)
(* Properties of the password validators.                                 *)
(***************************************************************************)
validateDone ==
    fn = "validatePassword" /\ pc = "done" /\ TypeOf(args.password) = "string"

\* the requirement is enabled: its flag is true or omitted
Enabled(require) ==
    \/ args.options = Undefined
    \/ require \notin DOMAIN args.options.v
    \/ args.options.v[require] = Bool(TRUE)

\* the flag of the details of the result
Detail(name) == ret.v.details.v[name].v

\* C8: for a string password, isValid is true if and only if details.length
\* is true and the details flag of every enabled requirement (its option true
\* or omitted) is true; a disabled requirement does not affect isValid.
C8_IsValidIffEnabledMet ==
    validateDone =>
        (ret.v.isValid.v <=>
            /\ Detail("length")
            /\ Enabled("requireNumber") => Detail("hasNumber")
            /\ Enabled("requireLetter") => Detail("hasLetter")
            /\ Enabled("requireLowerCase") => Detail("hasLowerCase")
            /\ Enabled("requireUpperCase") => Detail("hasUpperCase")
            /\ Enabled("requireSpecialChar") => Detail("hasSpecialChar"))

\* a valid password that lacks the upper-case letter and the special
\* character of two disabled requirements
C8_Witness ==
    /\ validateDone /\ ret.v.isValid.v
    /\ ~Enabled("requireUpperCase") /\ ~Detail("hasUpperCase")
    /\ ~Enabled("requireSpecialChar") /\ ~Detail("hasSpecialChar")
    /\ Enabled("requireNumber") /\ Enabled("requireLowerCase")

\* the minimum length of the call
MinLength ==
    IF args.options = Undefined \/ "minLength" \notin DOMAIN args.options.v THEN Num(8)
    ELSE args.options.v["minLength"]

MessageIf(missing, message) == IF missing THEN {Str(message)} ELSE {}

\* the messages of the unmet enabled requirements
Unmet ==
    MessageIf(~Detail("length"), lengthMessage(MinLength))
        \cup MessageIf(Enabled("requireNumber") /\ ~Detail("hasNumber"), numberMessage)
        \cup MessageIf(Enabled("requireLetter") /\ ~Detail("hasLetter"), letterMessage)
        \cup MessageIf(Enabled("requireLowerCase") /\ ~Detail("hasLowerCase"),
                       lowerCaseMessage)
        \cup MessageIf(Enabled("requireUpperCase") /\ ~Detail("hasUpperCase"),
                       upperCaseMessage)
        \cup MessageIf(Enabled("requireSpecialChar") /\ ~Detail("hasSpecialChar"),
                       specialCharMessage)

\* C9: for a string password the requirements list holds exactly one message
\* for each unmet enabled requirement and none for a met or disabled one, so
\* it is empty if and only if isValid is true; for a password that is not a
\* string the result has isValid false and a message.
C9_RequirementsComplete ==
    /\ validateDone =>
          /\ {ret.v.requirements.v[i] : i \in 1..Len(ret.v.requirements.v)} = Unmet
          /\ Len(ret.v.requirements.v) = Cardinality(Unmet)
          /\ (ret.v.requirements.v = <<>>) <=> ret.v.isValid.v
    /\ (fn = "validatePassword" /\ pc = "done" /\ TypeOf(args.password) # "string")
          => /\ ~ret.v.isValid.v
             /\ ret.v.message.t = "string" /\ ret.v.message.v # <<>>

\* all six requirements unmet at once
C9_Witness == validateDone /\ Len(ret.v.requirements.v) = 6

strengthDone == fn = "getPasswordStrength" /\ pc = "done"

\* 1 when the password has a character of the class, else 0
Has(class) ==
    IF \E i \in 1..Len(args.password.v) : args.password.v[i] \in class THEN 1 ELSE 0

Digit == {"0", "1", "2", "3", "4", "5", "6", "7", "8", "9"}
Lower == {LowerCase[i] : i \in 1..26}
Upper == {UpperCase[i] : i \in 1..26}

\* the score of the password of the call, as the contract states it
Score ==
    Min(2, Len(args.password.v) \div 4)
        + Has(Digit) + Has(Lower) + Has(Upper) + 2 * Has(SpecialChars)
        + Max(0, (IF Len(args.password.v) >= 8 THEN 1 ELSE 0) + Has(Digit) + Has(Lower)
                     + Has(Upper) + Has(SpecialChars) - 2)

\* C10: for a string password the score is min(2, floor(length / 4)), plus 1
\* for a digit, 1 for a lower-case letter, 1 for an upper-case letter, 2 for
\* a special character, plus max(0, v - 2) for v true detail flags; the level
\* is weak up to 2, medium up to 4, strong up to 6 and very-strong above;
\* level invalid with score 0 is returned exactly when the password is not a
\* string; the score lies in 0..10.
C10_StrengthScoreAndLevel ==
    strengthDone =>
        /\ ret.v.score.v \in 0..10
        /\ (ret.v.level.v = <<"i", "n", "v", "a", "l", "i", "d">>)
              <=> TypeOf(args.password) # "string"
        /\ TypeOf(args.password) # "string" => ret.v.score.v = 0
        /\ TypeOf(args.password) = "string" =>
              /\ ret.v.score.v = Score
              /\ ret.v.level.v =
                    (IF Score <= 2 THEN <<"w", "e", "a", "k">>
                     ELSE IF Score <= 4 THEN <<"m", "e", "d", "i", "u", "m">>
                     ELSE IF Score <= 6 THEN <<"s", "t", "r", "o", "n", "g">>
                     ELSE <<"v", "e", "r", "y", "-", "s", "t", "r", "o", "n", "g">>)

\* the highest score
C10_Witness ==
    /\ strengthDone /\ TypeOf(args.password) = "string"
    /\ ret.v.score.v = 10
    /\ ret.v.level.v = <<"v", "e", "r", "y", "-", "s", "t", "r", "o", "n", "g">>

CharacterClasses == {"hasNumber", "hasLowerCase", "hasUpperCase", "hasSpecialChar"}

\* q is as long as p and satisfies every character class that p satisfies
Dominates(q, p) ==
    /\ Len(q) = Len(p)
    /\ \A k \in CharacterClasses : strengthDetails(p)[k] => strengthDetails(q)[k]

LevelRank(level) ==
    CASE level = <<"w", "e", "a", "k">> -> 1
      [] level = <<"m", "e", "d", "i", "u", "m">> -> 2
      [] level = <<"s", "t", "r", "o", "n", "g">> -> 3
      [] level = <<"v", "e", "r", "y", "-", "s", "t", "r", "o", "n", "g">> -> 4
      [] OTHER -> 0

\* C11: at a constant password length the score of getPasswordStrength is
\* monotonic in the set of satisfied character classes: a password q as long
\* as p that satisfies every class p satisfies has a score at least that of
\* p and a level that is not lower.
C11_StrengthMonotonic ==
    (strengthDone /\ TypeOf(args.password) = "string") =>
        \A q \in Passwords :
            Dominates(q.v, args.password.v) =>
                /\ getPasswordStrength(q).v.score.v >= ret.v.score.v
                /\ LevelRank(getPasswordStrength(q).v.level.v) >= LevelRank(ret.v.level.v)

\* a password with one class, and one as long with two more classes and a
\* higher level
C11_Witness ==
    /\ strengthDone /\ TypeOf(args.password) = "string"
    /\ varietyCount(strengthDetails(args.password.v)) = 1
    /\ \E q \in Passwords :
          /\ Dominates(q.v, args.password.v)
          /\ varietyCount(strengthDetails(q.v)) = 3
          /\ LevelRank(getPasswordStrength(q).v.level.v) > LevelRank(ret.v.level.v)

(***************************************************************************)
(* Properties of sortBy, unique, chunk, flatten, sample and groupBy.       *)
(***************************************************************************)
\* the key field of an element of the array sorted
KeyOf(x) == PropOf(x, args.key)

\* the one-to-one maps from the positions of r to the positions of a that
\* make r a rearrangement of a
Rearrangements(r, a) ==
    {p \in [1..Len(r) -> 1..Len(a)] :
        /\ \A i, j \in 1..Len(r) : i # j => p[i] # p[j]
        /\ \A i \in 1..Len(r) : r[i] = a[p[i]]}

\* C12: sortBy returns a permutation of arr in which the defined key values
\* are in non-decreasing order (non-increasing with desc) and in which
\* elements with equal key values, or both without one, keep their order
\* from arr.
C12_SortByStablePermutation ==
    sortByDone =>
        /\ Len(ret.v) = Len(args.arr.v)
        /\ \E p \in Rearrangements(ret.v, args.arr.v) :
              \A i, j \in 1..Len(ret.v) :
                  (i < j /\ KeyOf(ret.v[i]) = KeyOf(ret.v[j])) => p[i] < p[j]
        /\ \A i, j \in 1..Len(ret.v) :
              (i < j /\ KeyOf(ret.v[i]) # Undefined /\ KeyOf(ret.v[j]) # Undefined)
              => IF Truthy(Default(args.desc, Bool(FALSE)))
                 THEN KeyOf(ret.v[i]).v >= KeyOf(ret.v[j]).v
                 ELSE KeyOf(ret.v[i]).v <= KeyOf(ret.v[j]).v

\* C13: sorting the result of sortBy again with the same key and desc
\* returns that result unchanged.
C13_SortByIdempotent ==
    sortByDone => sortBy(ret, args.key, args.desc) = ret

\* a call that reordered arr and whose result holds two different elements
\* with the same key value
C13_Witness ==
    /\ sortByDone
    /\ ret # args.arr
    /\ \E i, j \in 1..Len(ret.v) :
          /\ i < j
          /\ ret.v[i] # ret.v[j]
          /\ KeyOf(ret.v[i]) # Undefined
          /\ KeyOf(ret.v[i]) = KeyOf(ret.v[j])

uniqueDone == fn = "unique" /\ pc = "done" /\ IsArray(args.arr)

Elements(s) == {s[i] : i \in 1..Len(s)}

\* the index of the first occurrence of x in s
FirstIndex(s, x) == CHOOSE i \in 1..Len(s) : s[i] = x /\ \A j \in 1..(i - 1) : s[j] # x

\* C14: unique(xs) holds no two equal elements, holds exactly the elements
\* that occur in xs, and holds them in the order of their first occurrence
\* in xs.
C14_UniqueFirstOccurrences ==
    uniqueDone =>
        /\ \A i, j \in 1..Len(ret.v) : i # j => ret.v[i] # ret.v[j]
        /\ Elements(ret.v) = Elements(args.arr.v)
        /\ \A i, j \in 1..Len(ret.v) :
              i < j => FirstIndex(args.arr.v, ret.v[i]) < FirstIndex(args.arr.v, ret.v[j])

\* an array whose first element comes back after a different one
C14_Witness ==
    /\ uniqueDone
    /\ Len(args.arr.v) = 3
    /\ args.arr.v[1] = args.arr.v[3]
    /\ args.arr.v[1] # args.arr.v[2]
    /\ Len(ret.v) = 2

chunkDone == fn = "chunk" /\ pc = "done" /\ IsArray(args.arr)

\* the size chunk works with: 1 when the argument is omitted
ChunkSize == Default(args.size, Num(1)).v

\* the groups of a chunked array concatenated in order
RECURSIVE ConcatGroups(_)
ConcatGroups(groups) ==
    IF groups = <<>> THEN <<>> ELSE Head(groups).v \o ConcatGroups(Tail(groups))

\* C15: for n >= 1 the groups of chunk(xs, n) concatenated in order are xs,
\* every group but the last has n elements and the last has between 1 and n
\* elements; for n < 1 the result is the empty array.
C15_ChunkReconstructs ==
    chunkDone =>
        IF ChunkSize < 1 THEN ret = Arr(<<>>)
        ELSE /\ \A i \in 1..Len(ret.v) : IsArray(ret.v[i])
             /\ ConcatGroups(ret.v) = args.arr.v
             /\ \A i \in 1..(Len(ret.v) - 1) : Len(ret.v[i].v) = ChunkSize
             /\ Len(ret.v) > 0 =>
                   /\ Len(ret.v[Len(ret.v)].v) >= 1
                   /\ Len(ret.v[Len(ret.v)].v) <= ChunkSize

\* a call with a full group and a shorter last group
C15_Witness ==
    /\ chunkDone
    /\ ChunkSize = 2
    /\ Len(args.arr.v) = 3
    /\ Len(ret.v) = 2
    /\ Len(ret.v[2].v) = 1

flattenDone == fn = "flatten" /\ pc = "done" /\ IsArray(args.arr)

\* the depth flatten works with: 1 when the argument is omitted
FlattenDepth == Default(args.depth, Num(1)).v

\* every element of a nested array from left to right, an array before its
\* own elements, each with the number of arrays between it and the outermost
RECURSIVE Items(_, _)
Items(s, level) ==
    IF s = <<>> THEN <<>>
    ELSE <<[v |-> Head(s), k |-> level]>>
         \o (IF IsArray(Head(s)) THEN Items(Head(s).v, level + 1) ELSE <<>>)
         \o Items(Tail(s), level)

\* the number of levels of arrays nested in an array
MaxNesting(s) ==
    LET NestingAt(x) == IF IsArray(x.v) THEN x.k + 1 ELSE x.k
        levels == {0} \cup {NestingAt(Items(s, 0)[i]) : i \in 1..Len(Items(s, 0))}
    IN  CHOOSE m \in levels : \A l \in levels : l <= m

\* the elements left after depth levels are removed: an array less than depth
\* levels deep gives way to its elements, every other element moves up
Lifted(items, depth) ==
    LET Stays(x) == ~IsArray(x.v) \/ x.k >= depth
        kept == SelectSeq(items, Stays)
    IN  [i \in 1..Len(kept) |-> [v |-> kept[i].v, k |-> Max(0, kept[i].k - depth)]]

\* C16: flatten(xs, depth) removes depth levels of nesting, as far as there
\* are any: an element k levels deep comes out max(0, k - depth) levels deep
\* and the elements keep their order from left to right; the default depth
\* is 1, a depth of at least the deepest nesting leaves no array in the
\* result, and a depth below 1 returns a copy equal to xs.
C16_FlattenRemovesLevels ==
    flattenDone =>
        /\ Items(ret.v, 0) = Lifted(Items(args.arr.v, 0), Max(0, FlattenDepth))
        /\ args.depth = Undefined => ret = flatten(args.arr, Num(1))
        /\ FlattenDepth >= MaxNesting(args.arr.v) =>
              \A i \in 1..Len(ret.v) : ~IsArray(ret.v[i])
        /\ FlattenDepth < 1 => ret = args.arr

\* a call that removes two of three levels
C16_Witness ==
    /\ flattenDone
    /\ FlattenDepth = 2
    /\ MaxNesting(args.arr.v) = 3
    /\ MaxNesting(ret.v) = 1

sampleDone == fn = "sample" /\ pc = "done" /\ IsArray(args.arr)

\* the count sample works with: 1 when the argument is omitted
SampleCount == Default(args.count, Num(1)).v

\* C17: whatever indexes are drawn, sample(arr, count) of a non-empty array
\* and a count of at least 1 returns min(count, arr.length) elements, each
\* taken from an index of arr of its own; with a count below 1 or an empty
\* array it returns the empty array.
C17_SampleWithoutReplacement ==
    sampleDone =>
        IF SampleCount < 1 \/ Len(args.arr.v) = 0 THEN ret = Arr(<<>>)
        ELSE /\ Len(ret.v) = Min(SampleCount, Len(args.arr.v))
             /\ Rearrangements(ret.v, args.arr.v) # {}

\* a sample of two different elements out of three
C17_Witness ==
    /\ sampleDone
    /\ SampleCount = 2
    /\ Len(args.arr.v) = 3
    /\ Len(ret.v) = 2
    /\ ret.v[1] # ret.v[2]

groupByDone == fn = "groupBy" /\ pc = "done" /\ IsArray(args.arr)

\* the name of the group of an element whose key field is defined
GroupName(x) == ToPropertyKey(KeyOf(x))

\* the elements of s that belong to the group called name, in their order
Members(s, name) ==
    LET Belongs(x) == KeyOf(x) # Undefined /\ GroupName(x) = name
    IN  SelectSeq(s, Belongs)

\* C18: groupBy(arr, key) returns a mapping whose groups are named by the
\* stringified key values of the elements of arr that have one, names of
\* built-in object properties included; each group holds exactly the
\* elements with that name in their order from arr, so an element with a
\* key value is in one group, an element without one is in none and no
\* group is empty.
C18_GroupByPartitions ==
    groupByDone =>
        /\ ret.t = "object"
        /\ DOMAIN ret.v = {GroupName(x) : x \in {y \in Elements(args.arr.v) : KeyOf(y) # Undefined}}
        /\ \A name \in DOMAIN ret.v :
              /\ ret.v[name] = Arr(Members(args.arr.v, name))
              /\ ret.v[name].v # <<>>

(***************************************************************************)
(* Properties of format and toDate.                                        *)
(***************************************************************************)
formatDone == fn = "format" /\ pc = "done" /\ isValidDate(toDate(args.date))

\* a number in decimal, with zeros in front up to the given width
ZeroPadded(n, width) ==
    IF Len(Digits(n)) >= width THEN Digits(n)
    ELSE [i \in 1..width |->
            IF i <= width - Len(Digits(n)) THEN "0" ELSE Digits(n)[i - (width - Len(Digits(n)))]]

\* the value a token stands for at local time t
TokenValue(token, t) ==
    CASE token = <<"Y", "Y", "Y", "Y">> -> ZeroPadded(getFullYear(t).v, 4)
      [] token = <<"M", "M">> -> ZeroPadded(getMonth(t).v + 1, 2)
      [] token = <<"D", "D">> -> ZeroPadded(getDate(t).v, 2)
      [] token = <<"H", "H">> -> ZeroPadded(getHours(t).v, 2)
      [] token = <<"h", "h">> -> ZeroPadded(((getHours(t).v + 11) % 12) + 1, 2)
      [] token = <<"m", "m">> -> ZeroPadded(getMinutes(t).v, 2)
      [] token = <<"s", "s">> -> ZeroPadded(getSeconds(t).v, 2)
      [] token = <<"S", "S", "S">> -> ZeroPadded(getMilliseconds(t).v, 3)
      [] token = <<"d">> -> Digits(getDay(t).v)
      [] token = <<"d", "d">> -> <<weekDayMap[getDay(t).v + 1]>>
      [] token = <<"A">> -> IF getHours(t).v < 12 THEN <<"U+4E0A", "U+5348">>
                            ELSE <<"U+4E0B", "U+5348">>

\* the tokens that occur in s at position i
TokensAt(s, i) == {n \in 1..Len(formatTokens) : IsPrefixAt(s, i, formatTokens[n])}

\* the end of the bracketed text that opens at position i, 0 when none does
BracketEnd(s, i) ==
    LET closes == {j \in (i + 2)..Len(s) :
                      s[j] = "]" /\ \A k \in (i + 1)..(j - 1) : s[k] # "]"}
    IN  IF s[i] = "[" /\ closes # {} THEN CHOOSE j \in closes : TRUE ELSE 0

\* the pattern from position i on with every token replaced by its value,
\* dd taken as one token, and bracketed text emitted without its brackets
RECURSIVE Formatted(_, _, _)
Formatted(s, i, t) ==
    IF i > Len(s) THEN <<>>
    ELSE IF BracketEnd(s, i) # 0
    THEN SubSeq(s, i + 1, BracketEnd(s, i) - 1) \o Formatted(s, BracketEnd(s, i) + 1, t)
    ELSE IF TokensAt(s, i) # {}
    THEN LET token == formatTokens[CHOOSE n \in TokensAt(s, i) :
                         \A o \in TokensAt(s, i) :
                             Len(formatTokens[o]) <= Len(formatTokens[n])]
         IN  TokenValue(token, t) \o Formatted(s, i + Len(token), t)
    ELSE <<s[i]>> \o Formatted(s, i + 1, t)

\* C19: for a valid date, format replaces every occurrence of YYYY, MM, DD,
\* HH, hh, mm, ss, SSS, d, dd and A in the pattern by its value (zero-padded
\* year, month, day, 24-hour hour, 12-hour hour in 01..12, minute, second
\* and millisecond, the weekday number for d, the Chinese weekday name for
\* dd, morning or afternoon for A), emits bracketed text without the
\* brackets and leaves every other character as it is; dd gives the
\* weekday name, not two weekday digits.
C19_FormatReplacesTokens ==
    formatDone =>
        ret = Str(Formatted(Default(args.format, Str(defaultFormat)).v, 1,
                            toDate(args.date).tv))

toDateDone == fn = "toDate" /\ pc = "done"

\* C20: for a string s of the form YYYY-MM-DD that names a calendar date,
\* format(toDate(s), "YYYY-MM-DD") is s, in every time zone.
C20_FormatToDateRoundTrip ==
    (toDateDone /\ args.date \in CalendarStrings) =>
        format(ret, Str(<<"Y", "Y", "Y", "Y", "-", "M", "M", "-", "D", "D">>)) = args.date

(***************************************************************************)
(* Properties of relativeTime, startOf and endOf.                          *)
(***************************************************************************)
\* the base date relativeTime compares with: now when the argument is omitted
BaseTime == IF args.baseDate = Undefined THEN env.now ELSE toDate(args.baseDate).tv

relativeTimeDone ==
    /\ fn = "relativeTime" /\ pc = "done"
    /\ IsTime(toDate(args.date).tv) /\ IsTime(BaseTime)

\* date is later than base
IsLater == MsNegative(MsSub(BaseTime, toDate(args.date).tv))

\* |base - date|, in whole days and the milliseconds past them
Apart == IF IsLater THEN MsSub(toDate(args.date).tv, BaseTime)
         ELSE MsSub(BaseTime, toDate(args.date).tv)

\* a is less than the given days and milliseconds
Under(a, days, ms) == a.d < days \/ (a.d = days /\ a.m < ms)

Ago(count, unit) ==
    Str(Digits(count) \o unit \o (IF IsLater THEN <<"U+540E">> ELSE <<"U+524D">>))

\* C21: for valid dates and a = |base - date|, relativeTime returns just now
\* when a is under a minute, the whole minutes of a when under an hour, the
\* whole hours when under a day, the whole days when under 7 days, the whole
\* weeks when under 30 days, the whole months of 30 days when under 365 days
\* and else the whole years of 365 days; the count is at least 1, and the
\* suffix is after exactly when date is later than base, before otherwise.
C21_RelativeTimeBuckets ==
    relativeTimeDone =>
        /\ ret = IF Under(Apart, 0, MsPerMinute) THEN Str(<<"U+521A", "U+521A">>)
                 ELSE IF Under(Apart, 0, MsPerHour)
                 THEN Ago(Apart.m \div MsPerMinute, <<"U+5206", "U+949F">>)
                 ELSE IF Under(Apart, 1, 0)
                 THEN Ago(Apart.m \div MsPerHour, <<"U+5C0F", "U+65F6">>)
                 ELSE IF Under(Apart, 7, 0) THEN Ago(Apart.d, <<"U+5929">>)
                 ELSE IF Under(Apart, 30, 0) THEN Ago(Apart.d \div 7, <<"U+5468">>)
                 ELSE IF Under(Apart, 365, 0)
                 THEN Ago(Apart.d \div 30, <<"U+4E2A", "U+6708">>)
                 ELSE Ago(Apart.d \div 365, <<"U+5E74">>)
        /\ ret # Str(<<"U+521A", "U+521A">>) => ret.v[1] # "0"

\* a date exactly one minute after its base
C21_Witness ==
    /\ relativeTimeDone
    /\ IsLater
    /\ Apart = Time(0, MsPerMinute)
    /\ ret = Str(<<"1", "U+5206", "U+949F", "U+540E">>)

rangeDone(f) ==
    /\ fn = f /\ pc = "done"
    /\ IsTime(toDate(args.date).tv)
    /\ args.unit # Undefined /\ args.unit.v \in UnitNames

\* the unit of local time that holds t, as a number or a tuple of numbers:
\* the week is counted from a Sunday (day 3 after 1970-01-01 is one)
UnitHolding(t, u) ==
    CASE u = "year" -> <<getFullYear(t).v>>
      [] u = "month" -> <<getFullYear(t).v, getMonth(t).v>>
      [] u = "week" -> <<(LocalTime(t).d + 4) \div 7>>
      [] u = "day" -> <<LocalTime(t).d>>
      [] u = "hour" -> <<LocalTime(t).d, getHours(t).v>>
      [] u = "minute" -> <<LocalTime(t).d, getHours(t).v, getMinutes(t).v>>
      [] u = "second" -> <<LocalTime(t).d, getHours(t).v, getMinutes(t).v, getSeconds(t).v>>

\* t is not later than s
NotAfter(t, s) == ~MsNegative(MsSub(s, t))

MsOfDay(t) == LocalTime(t).m

\* C22: for a valid date d and a unit of year, month, week, day, hour,
\* minute or second, startOf(d, u) is not after d and is the first
\* millisecond of the unit that holds d, endOf(d, u) is not before d and is
\* the last millisecond of that unit; the week runs from weekday 0 at
\* 00:00:00.000 to weekday 6 at 23:59:59.999; startOf and endOf applied to
\* their own result return it again.
C22_StartEndOfUnit ==
    /\ rangeDone("startOf") =>
          /\ NotAfter(heap[ret.v], toDate(args.date).tv)
          /\ UnitHolding(heap[ret.v], args.unit.v) = UnitHolding(toDate(args.date).tv, args.unit.v)
          /\ UnitHolding(Time(heap[ret.v].d, heap[ret.v].m - 1), args.unit.v)
                # UnitHolding(heap[ret.v], args.unit.v)
          /\ args.unit.v = "week" => getDay(heap[ret.v]).v = 0 /\ MsOfDay(heap[ret.v]) = 0
          /\ startOf(ret, args.unit).v = heap[ret.v]
    /\ rangeDone("endOf") =>
          /\ NotAfter(toDate(args.date).tv, heap[ret.v])
          /\ UnitHolding(heap[ret.v], args.unit.v) = UnitHolding(toDate(args.date).tv, args.unit.v)
          /\ UnitHolding(Time(heap[ret.v].d, heap[ret.v].m + 1), args.unit.v)
                # UnitHolding(heap[ret.v], args.unit.v)
          /\ args.unit.v = "week" =>
                getDay(heap[ret.v]).v = 6 /\ MsOfDay(heap[ret.v]) = MsPerDay - 1
          /\ endOf(ret, args.unit).v = heap[ret.v]

(***************************************************************************)
(* The animation helpers of domUtils on one element.  heap is the element  *)
(* (its inline style) with the promises settled so far, loc holds one      *)
(* closure per call (the locals of the promise executor and of animate),   *)
(* env is the host: its clock, the frame callbacks requested for the next  *)
(* frame, those of the frame being run with the frame's timestamp, and the *)
(* timers.  pc is "frame" while the host runs the callbacks of a frame.    *)
(***************************************************************************)
\* number of calls of an animation helper
MaxAnimations == 2
\* last tick of the host's clock
MaxTime == 3

RECURSIVE GCD(_, _)
GCD(a, b) == IF b = 0 THEN a ELSE GCD(b, a % b)

\* the number n / d
Frac(n, d) == [t |-> "number", n |-> n \div GCD(n, d), d |-> d \div GCD(n, d)]
FracOne == Frac(1, 1)
FracZero == Frac(0, 1)

\* Math.min(elapsed / duration, 1) for elapsed >= 0: 0 / 0 is NaN and
\* Math.min(NaN, 1) is NaN, a positive number over 0 is Infinity
Progress(elapsed, duration) ==
    IF duration = 0 THEN (IF elapsed = 0 THEN NaN ELSE FracOne)
    ELSE IF elapsed >= duration THEN FracOne
    ELSE Frac(elapsed, duration)

\* progress < 1, false for NaN
LessThanOne(p) == p.t = "number" /\ p.n < p.d

\* initialOpacity * (1 - progress)
Faded(initialOpacity, p) ==
    IF p.t = "nan" THEN NaN
    ELSE Frac(initialOpacity.n * (p.d - p.n), initialOpacity.d * p.d)

\* element.style.opacity = x: the declaration "NaN" is invalid and ignored
SetOpacity(style, x) == IF x.t = "nan" THEN style ELSE [style EXCEPT !.opacity = x]

\* parseFloat(getComputedStyle(element).opacity)
ComputedOpacity(style) == IF style.opacity = Undefined THEN FracOne ELSE style.opacity

\* a frame request that drops the requests made before it
requestOnlyFrame(frames, id) == <<id>>

\* requestAnimationFrame(animate) of the closure id
requestAnimationFrame(frames, id) == Append(frames, id)

\* the element's scrollHeight in pixels, and height ${duration}ms ease
scrollHeight == <<"H", "p", "x">>
Transition(duration) == [property |-> "height", ms |-> duration, timing |-> "ease"]

Closure(kind, duration, display, start, initialOpacity) ==
    [kind |-> kind, duration |-> duration, display |-> display, start |-> start,
     initialOpacity |-> initialOpacity, progress |-> Undefined, resolved |-> 0]

\* the body of the promise executor of each helper, up to its request of a
\* frame or a timer
fadeInStart(style, display) == [style EXCEPT !.opacity = FracZero, !.display = display]

slideDownStart(style, duration) ==
    [style EXCEPT !.display = "block", !.height = scrollHeight, !.overflow = "hidden",
                  !.transition = Transition(duration)]

slideUpStart(style, duration) ==
    [style EXCEPT !.height = <<"0">>, !.overflow = "hidden",
                  !.transition = Transition(duration)]

\* animate(currentTime) of fadeIn and of fadeOut: the style it leaves
animate(c, p, style) ==
    IF c.kind = "fadeIn" THEN SetOpacity(style, p)
    ELSE IF LessThanOne(p) THEN SetOpacity(style, Faded(c.initialOpacity, p))
    ELSE [SetOpacity(style, Faded(c.initialOpacity, p)) EXCEPT !.display = "none"]

\* the callback of setTimeout in slideDown and in slideUp
slideEnd(c, style) ==
    [style EXCEPT !.display = IF c.kind = "slideUp" THEN "none" ELSE @,
                  !.height = <<>>, !.overflow = <<>>, !.transition = <<>>]

Durations == {0, 1, 2}
Displays == {Undefined, Str(<<"f", "l", "e", "x">>)}
DisplayOf(display) == IF display = Undefined THEN "block" ELSE "flex"

\* a helper is called: its closure is made, with the style it leaves
Started(f, a, c, style) ==
    /\ Len(loc) < MaxAnimations
    /\ env.now + c.duration <= MaxTime
    /\ fn' = f
    /\ args' = a
    /\ ret' = Len(loc) + 1
    /\ loc' = Append(loc, c)
    /\ heap' = [heap EXCEPT !.style = style]
    /\ pc' = pc

CallFadeIn ==
    /\ pc \in {"idle", "frame"}
    /\ \E duration \in Durations, display \in Displays :
        /\ Started("fadeIn", [duration |-> duration, display |-> display],
                   Closure("fadeIn", duration, DisplayOf(display), env.now, Undefined),
                   fadeInStart(heap.style, DisplayOf(display)))
        /\ env' = [env EXCEPT !.frames = requestAnimationFrame(@, Len(loc) + 1)]

CallFadeOut ==
    /\ pc \in {"idle", "frame"}
    /\ \E duration \in Durations :
        /\ Started("fadeOut", [duration |-> duration],
                   Closure("fadeOut", duration, Undefined, env.now,
                           ComputedOpacity(heap.style)),
                   heap.style)
        /\ env' = [env EXCEPT !.frames = requestAnimationFrame(@, Len(loc) + 1)]

CallSlideDown ==
    /\ pc \in {"idle", "frame"}
    /\ \E duration \in Durations :
        /\ Started("slideDown", [duration |-> duration],
                   Closure("slideDown", duration, Undefined, env.now, Undefined),
                   slideDownStart(heap.style, duration))
        /\ env' = [env EXCEPT !.timers = @ \cup {[id |-> Len(loc) + 1,
                                                   due |-> env.now + duration]}]

CallSlideUp ==
    /\ pc \in {"idle", "frame"}
    /\ \E duration \in Durations :
        /\ Started("slideUp", [duration |-> duration],
                   Closure("slideUp", duration, Undefined, env.now, Undefined),
                   slideUpStart([heap.style EXCEPT !.height = scrollHeight], duration))
        /\ env' = [env EXCEPT !.timers = @ \cup {[id |-> Len(loc) + 1,
                                                   due |-> env.now + duration]}]

\* the host's clock advances
Tick ==
    /\ pc \in {"idle", "frame"}
    /\ env.now < MaxTime
    /\ env' = [env EXCEPT !.now = @ + 1]
    /\ UNCHANGED <<fn, args, ret, pc, loc, heap>>

\* the host starts a frame: the callbacks requested so far are run with the
\* frame's timestamp, those requested meanwhile wait for the next frame
BeginFrame ==
    /\ pc = "idle"
    /\ env.frames # <<>>
    /\ env' = [env EXCEPT !.running = env.frames, !.frames = <<>>, !.frameTime = env.now]
    /\ pc' = "frame"
    /\ UNCHANGED <<fn, args, ret, loc, heap>>

\* the host calls animate(currentTime) of the first callback of the frame
Animated(id, p) ==
    /\ heap' = [heap EXCEPT !.style = animate(loc[id], p, @),
                            !.settled = IF LessThanOne(p) THEN @ ELSE Append(@, id)]
    /\ loc' = [loc EXCEPT ![id].progress = p,
                          ![id].resolved = IF LessThanOne(p) THEN @ ELSE @ + 1]
    /\ env' = [env EXCEPT !.running = Tail(@),
                          !.frames = IF LessThanOne(p) THEN requestAnimationFrame(@, id)
                                     ELSE @]
    /\ pc' = IF Tail(env.running) = <<>> THEN "idle" ELSE "frame"

Animate ==
    /\ pc = "frame"
    /\ \E id \in {Head(env.running)} :
           Animated(id, Progress(env.frameTime - loc[id].start, loc[id].duration))
    /\ UNCHANGED <<fn, args, ret>>

\* the host runs the callback of a timer that is due
Timeout ==
    /\ pc = "idle"
    /\ \E timer \in env.timers :
        /\ timer.due <= env.now
        /\ heap' = [heap EXCEPT !.style = slideEnd(loc[timer.id], @),
                                !.settled = Append(@, timer.id)]
        /\ loc' = [loc EXCEPT ![timer.id].resolved = @ + 1]
        /\ env' = [env EXCEPT !.timers = @ \ {timer}]
    /\ UNCHANGED <<fn, args, ret, pc>>

InitAnimation ==
    /\ fn = "none"
    /\ args = <<>>
    /\ ret = Undefined
    /\ pc = "idle"
    /\ loc = <<>>
    /\ heap = [style |-> [opacity |-> Undefined, display |-> "", height |-> <<>>,
                          overflow |-> <<>>, transition |-> <<>>],
               settled |-> <<>>]
    /\ env = [now |-> 0, frames |-> <<>>, running |-> <<>>, frameTime |-> 0,
              timers |-> {}]

NextAnimation ==
    \/ CallFadeIn
    \/ CallFadeOut
    \/ CallSlideDown
    \/ CallSlideUp
    \/ Tick
    \/ BeginFrame
    \/ Animate
    \/ Timeout

SpecAnimation == InitAnimation /\ [][NextAnimation]_vars

\* fadeIn and fadeOut alone, on a host that keeps running the frames that
\* are requested and whose clock keeps advancing
NextFade ==
    \/ CallFadeIn
    \/ CallFadeOut
    \/ Tick
    \/ BeginFrame
    \/ Animate

SpecFade ==
    /\ InitAnimation
    /\ [][NextFade]_vars
    /\ WF_vars(Tick)
    /\ WF_vars(BeginFrame)
    /\ WF_vars(Animate)

(***************************************************************************)
(* Properties of the animation helpers.                                    *)
(***************************************************************************)
\* this step is the host's call of animate of the closure id
AnimateStep(id) ==
    /\ pc = "frame"
    /\ Head(env.running) = id
    /\ env'.running = Tail(env.running)

\* this step resolves the promise of the closure id
ResolveStep(id) == loc'[id].resolved # loc[id].resolved

\* the progress animate computes for the closure id in the frame being run
FrameProgress(id) == Progress(env.frameTime - loc[id].start, loc[id].duration)

\* C23: the promise of fadeIn, fadeOut, slideDown and slideUp is resolved by
\* a frame callback of the host, not by a timer: by the first call of
\* animate in which progress = min(elapsed / duration, 1) is 1, elapsed
\* being the frame's timestamp minus the start time.
C23_ResolvedByFrame ==
    [][\A id \in DOMAIN loc :
          /\ ResolveStep(id) =>
                /\ AnimateStep(id)
                /\ FrameProgress(id) = FracOne
                /\ loc[id].progress # FracOne
          /\ (AnimateStep(id) /\ FrameProgress(id) = FracOne) => ResolveStep(id)]_vars

\* the closure id has a frame callback requested or about to be run
Pending(id) ==
    \/ \E i \in 1..Len(env.frames) : env.frames[i] = id
    \/ \E i \in 1..Len(env.running) : env.running[i] = id

\* nothing is left to run and some animation has run
Quiescent ==
    /\ env.frames = <<>> /\ env.running = <<>>
    /\ heap.settled # <<>>

\* the closure whose last frame ran last, and the fadeIn called last
LastSettled == loc[heap.settled[Len(heap.settled)]]
FadeIns == {id \in DOMAIN loc : loc[id].kind = "fadeIn"}
LastFadeIn == loc[CHOOSE id \in FadeIns : \A other \in FadeIns : other <= id]

\* the animation id has been called, and its promise is resolved
Called(id) == Len(loc) >= id
Resolved(id) == Len(loc) >= id /\ loc[id].resolved = 1

\* no call cancels an animation in flight: an unresolved animation always
\* has its frame requested, every call of animate writes the opacity of its
\* own progress, and every promise is resolved in the end
NoCancellation ==
    /\ [](\A id \in DOMAIN loc : loc[id].resolved = 0 => Pending(id))
    /\ [][\A id \in DOMAIN loc :
             (AnimateStep(id) /\ FrameProgress(id) # NaN) =>
                 heap'.style.opacity =
                     IF loc[id].kind = "fadeIn" THEN FrameProgress(id)
                     ELSE Faded(loc[id].initialOpacity, FrameProgress(id))]_vars
    /\ \A id \in 1..MaxAnimations : Called(id) ~> Resolved(id)

\* the opacity left by the animation whose last frame ran last
FinalOpacity ==
    (Quiescent /\ LastSettled.progress = FracOne) =>
        heap.style.opacity = IF LastSettled.kind = "fadeIn" THEN FracOne ELSE FracZero

\* a second animation was started while a fadeIn was running
Overlapping ==
    /\ Len(loc) = 2
    /\ loc[1].kind = "fadeIn"
    /\ loc[2].start < loc[1].start + loc[1].duration

FadedStyle(c, style) ==
    IF c.kind = "fadeIn" THEN style.opacity = FracOne /\ style.display = c.display
    ELSE style.opacity = FracZero /\ style.display = "none"

\* the promise of every fade is resolved in the end, and never twice
ResolvedOnce ==
    /\ \A id \in 1..MaxAnimations : Called(id) ~> Resolved(id)
    /\ [](\A id \in DOMAIN loc : loc[id].resolved <= 1)

\* a resolved fade requests no frame any more
NoFrameAfterResolved == [](\A id \in DOMAIN loc : Resolved(id) => ~Pending(id))

\* C25: on a host that keeps running the requested frames with timestamps
\* that reach start + duration, the promise of fadeIn and of fadeOut is
\* eventually resolved, exactly once, no frame is requested after it, and
\* at resolution the element (animated by this call alone) has opacity 1 and
\* the requested display after fadeIn, opacity 0 and display "none" after
\* fadeOut.
C25_FadeResolves ==
    /\ ResolvedOnce
    /\ NoFrameAfterResolved
    /\ [][(Len(loc) = 1 /\ ResolveStep(1)) => FadedStyle(loc[1], heap'.style)]_vars

(***************************************************************************)
(* event.once and event.trigger of domUtils on one element.  loc is the    *)
(* sequence of the wrappers made by once, each with the event type and the *)
(* handler it closes over; a wrapper is named by its index.  heap holds    *)
(* the element's listeners per event type, in the order they were added,   *)
(* and the number of times each wrapper's handler was invoked.  env is the *)
(* host's stack of dispatches in progress: each has the listeners still to *)
(* be called and the wrapper whose handler is dispatching from inside it   *)
(* (0 for none).  A handler returns, throws, or dispatches the event again *)
(* on its first invocation.                                                *)
(***************************************************************************)
\* number of calls of once, and of trigger from outside a handler
MaxListeners == 2
MaxDispatches == 2

EventTypes == {"click", "input"}
Handlers == {"return", "throw", "dispatch"}

addEventListener(listeners, type, w) ==
    [listeners EXCEPT ![type] = IF \E i \in 1..Len(@) : @[i] = w THEN @ ELSE Append(@, w)]

removeEventListener(listeners, type, w) ==
    [listeners EXCEPT ![type] = SelectSeq(@, LAMBDA x : x # w)]

Registered(listeners, type, w) == \E i \in 1..Len(listeners[type]) : listeners[type][i] = w

\* dispatchEvent: the listeners of the type at this moment are to be called
dispatchEvent(stack, listeners, type) ==
    Append(stack, [type |-> type, queue |-> listeners[type], wrapper |-> 0])

\* once(element, type, handler): the wrapper is made and added
CallOnce ==
    /\ pc = "idle"
    /\ Len(loc) < MaxListeners
    /\ \E type \in EventTypes, handler \in Handlers :
        /\ fn' = "once"
        /\ args' = [type |-> type, handler |-> handler]
        /\ loc' = Append(loc, [type |-> type, handler |-> handler])
        /\ heap' = [heap EXCEPT !.listeners = addEventListener(@, type, Len(loc) + 1),
                                !.calls = Append(@, 0)]
    /\ ret' = Undefined
    /\ UNCHANGED <<pc, env>>

\* trigger(element, type) from outside a handler
CallTrigger ==
    /\ pc = "idle"
    /\ env.dispatched < MaxDispatches
    /\ \E type \in EventTypes :
        /\ fn' = "trigger"
        /\ args' = [type |-> type]
        /\ env' = [stack |-> dispatchEvent(env.stack, heap.listeners, type),
                   dispatched |-> env.dispatched + 1]
    /\ pc' = "dispatch"
    /\ UNCHANGED <<ret, loc, heap>>

\* the dispatch in progress, and the rest of the stack with its next
\* listener taken
Dispatching == env.stack[Len(env.stack)]
Taken == [env.stack EXCEPT ![Len(env.stack)].queue = Tail(@)]

\* the host passes over a listener that was removed during the dispatch
SkipRemoved ==
    /\ pc = "dispatch"
    /\ Dispatching.queue # <<>>
    /\ ~Registered(heap.listeners, Dispatching.type, Head(Dispatching.queue))
    /\ env' = [env EXCEPT !.stack = Taken]
    /\ UNCHANGED <<fn, args, ret, pc, loc, heap>>

\* the host calls the wrapper w: handler(...args), then
\* element.removeEventListener(type, wrapper, options) if the handler
\* returns; a handler that dispatches leaves the wrapper waiting for the
\* dispatch to end
wrapper(w, type) ==
    /\ heap' = [heap EXCEPT
                   !.calls[w] = @ + 1,
                   !.listeners = IF loc[w].handler = "throw"
                                    \/ (loc[w].handler = "dispatch" /\ heap.calls[w] = 0)
                                 THEN @ ELSE removeEventListener(@, type, w)]
    /\ env' = [env EXCEPT
                  !.stack = IF loc[w].handler = "dispatch" /\ heap.calls[w] = 0
                            THEN dispatchEvent([Taken EXCEPT ![Len(Taken)].wrapper = w],
                                               heap.listeners, type)
                            ELSE Taken]

CallWrapper ==
    /\ pc = "dispatch"
    /\ Dispatching.queue # <<>>
    /\ Registered(heap.listeners, Dispatching.type, Head(Dispatching.queue))
    /\ wrapper(Head(Dispatching.queue), Dispatching.type)
    /\ UNCHANGED <<fn, args, ret, pc, loc>>

\* a dispatch has called its listeners: dispatchEvent returns, to the host
\* or to the handler that called it, whose wrapper then removes itself
Outer == SubSeq(env.stack, 1, Len(env.stack) - 1)

EndDispatch ==
    /\ pc = "dispatch"
    /\ Dispatching.queue = <<>>
    /\ IF Outer = <<>>
       THEN /\ pc' = "idle"
            /\ env' = [env EXCEPT !.stack = <<>>]
            /\ heap' = heap
       ELSE /\ pc' = pc
            /\ env' = [env EXCEPT !.stack = [Outer EXCEPT ![Len(Outer)].wrapper = 0]]
            /\ heap' = [heap EXCEPT !.listeners =
                           removeEventListener(@, Outer[Len(Outer)].type,
                                               Outer[Len(Outer)].wrapper)]
    /\ UNCHANGED <<fn, args, ret, loc>>

InitEvent ==
    /\ fn = "none"
    /\ args = <<>>
    /\ ret = Undefined
    /\ pc = "idle"
    /\ loc = <<>>
    /\ heap = [listeners |-> [type \in EventTypes |-> <<>>], calls |-> <<>>]
    /\ env = [stack |-> <<>>, dispatched |-> 0]

NextEvent ==
    \/ CallOnce
    \/ CallTrigger
    \/ SkipRemoved
    \/ CallWrapper
    \/ EndDispatch

SpecEvent == InitEvent /\ [][NextEvent]_vars

\* the wrappers whose handler returns when it is invoked
Returning == {w \in DOMAIN loc : loc[w].handler # "throw"}

\* C26: after event.once(element, type, handler), whatever dispatches of the
\* type follow, also one made by the handler itself, a handler that returns
\* is invoked at most once, and once its first invocation is over the
\* wrapper is no longer a listener of the element.
C26_OnceAtMostOnce ==
    /\ \A w \in Returning : heap.calls[w] <= 1
    /\ pc = "idle" =>
          \A w \in Returning :
              heap.calls[w] >= 1 => ~Registered(heap.listeners, loc[w].type, w)

\* the suffix truncate appends
SuffixOf(suffix) == Default(suffix, Str(defaultSuffix)).v
\* s ends with the characters of e
EndsIn(s, e) == Len(s) >= Len(e) /\ SubSeq(s, Len(s) - Len(e) + 1, Len(s)) = e

\* C27: truncate(str, maxLength, suffix) of a string, for maxLength >= 0,
\* returns str unchanged when str.length <= maxLength, and otherwise a string
\* of exactly maxLength characters that ends with suffix, also when
\* maxLength is smaller than suffix.length.
C27_TruncateWithinMaxLength ==
    (fn = "truncate" /\ pc = "done" /\ IsString(args.str)) =>
        IF Len(args.str.v) <= args.maxLength.v THEN ret = args.str
        ELSE /\ IsString(ret)
             /\ Len(ret.v) = args.maxLength.v
             /\ EndsIn(ret.v, SuffixOf(args.suffix))

\* the number of maximal runs of characters of s that are not white space
Words(s) ==
    Cardinality({i \in 1..Len(s) : ~IsSpace(s[i]) /\ (i = 1 \/ IsSpace(s[i - 1]))})

\* C29: wordCount(str) of a string is the number of its words, the maximal
\* runs of characters that are not white space: 0 for the empty string and
\* for white space alone, and the same with or without leading, trailing or
\* repeated white space.
C29_WordCountCountsWords ==
    (fn = "wordCount" /\ pc = "done" /\ IsString(args.str)) =>
        ret = Num(Words(args.str.v))

(***************************************************************************)
(* sample alone, with a fair Math.random: while the loop runs, every index *)
(* of the array is drawn sooner or later.                                  *)
(***************************************************************************)
\* the draw of Math.floor(Math.random() * len) gives index
DrawIndex(index) ==
    /\ pc = "sample"
    /\ sampleLoopCondition(args.arr, args.count, loc)
    /\ index < Len(args.arr.v)
    /\ loc' = sampleDraw(args.arr, loc, index)
    /\ UNCHANGED <<fn, args, ret, pc, heap, env>>

NextSample ==
    \/ CallSample
    \/ SampleDraw
    \/ SampleReturn

SpecSample ==
    /\ InitArray
    /\ [][NextSample]_vars
    /\ \A index \in 0..(MaxLen - 1) : WF_vars(DrawIndex(index))
    /\ WF_vars(SampleReturn)

\* the loop of sample is running, and the number of indexes it is to take
Sampling == fn = "sample" /\ pc = "sample"
SampleTarget == Min(SampleCount, Len(args.arr.v))

\* C30: the loop of sample ends for every array and every count: with every
\* index drawn sooner or later it ends once min(count, arr.length)
\* different indexes are taken, the set of taken indexes only grows and
\* never has more than arr.length members, and the loop body is never
\* entered with no index left to draw.
C30_SampleLoopTerminates ==
    /\ Sampling ~> (sampleDone /\ Len(ret.v) = SampleTarget)
    /\ [](Sampling =>
            /\ loc.taken \subseteq 0..(Len(args.arr.v) - 1)
            /\ Cardinality(loc.taken) = Len(loc.result)
            /\ Cardinality(loc.taken) <= SampleTarget
            /\ sampleLoopCondition(args.arr, args.count, loc)
                   <=> Cardinality(loc.taken) < SampleTarget
            /\ sampleLoopCondition(args.arr, args.count, loc) =>
                   \E index \in 0..(Len(args.arr.v) - 1) : index \notin loc.taken)
    /\ [][(Sampling /\ pc' = "sample") => loc.taken \subseteq loc'.taken]_vars

\* the loop has taken every index of an array shorter than count
C30_Witness ==
    /\ Sampling
    /\ SampleCount > Len(args.arr.v)
    /\ Cardinality(loc.taken) = Len(args.arr.v)
    /\ Len(args.arr.v) = 2

(***************************************************************************)
(* The array utilities on array objects.  heap is the sequence of the      *)
(* array objects there are, an array being named by its index in heap: the *)
(* first two are the arrays handed to the utility, the others are made by  *)
(* the call.  ret is the name of the array the call returns.               *)
(***************************************************************************)
\* a new array object holding s: an array literal, and what filter, concat
\* and the spread of a Set return
Create(h, s) == [heap |-> Append(h, Arr(s)), ref |-> Len(h) + 1]

\* no new object: the array itself
SameObject(h, ref) == [heap |-> h, ref |-> ref]

\* [...arr] and arr.slice(): a new array object with the elements of arr
Copy(h, ref) == Create(h, h[ref].v)

\* sort, splice and push change the array object they are called on
Update(o, s) == [heap |-> [o.heap EXCEPT ![o.ref] = Arr(s)], ref |-> o.ref]

\* the array object o.ref is returned
ReturnedObject(f, a, o) ==
    /\ fn' = f
    /\ args' = a
    /\ ret' = o.ref
    /\ heap' = o.heap
    /\ pc' = "done"
    /\ UNCHANGED <<loc, env>>

\* the indexes result.push takes in the loop of sample, in the order drawn
SamplePicks(arr, count) ==
    IF sampleEarlyReturn(arr, count) THEN {<<>>}
    ELSE {p \in [1..Min(Default(count, Num(1)).v, Len(arr.v)) -> 0..(Len(arr.v) - 1)] :
             \A i, j \in DOMAIN p : i # j => p[i] # p[j]}

ObjectUnique ==
    /\ pc = "idle"
    /\ ReturnedObject("unique", [arr |-> 1], Create(heap, unique(heap[1]).v))

ObjectChunk ==
    /\ pc = "idle"
    /\ \E size \in Indexes \cup {Undefined} :
           ReturnedObject("chunk", [arr |-> 1, size |-> size],
                          Update(Create(heap, <<>>), chunk(heap[1], size).v))

ObjectFlatten ==
    /\ pc = "idle"
    /\ \E depth \in Indexes \cup {Undefined} :
           ReturnedObject("flatten", [arr |-> 1, depth |-> depth],
                          IF Default(depth, Num(1)).v < 1 THEN Copy(heap, 1)
                          ELSE Create(heap, flatten(heap[1], depth).v))

ObjectIntersection ==
    /\ pc = "idle"
    /\ ReturnedObject("intersection", [arr1 |-> 1, arr2 |-> 2],
                      Create(heap, intersection(heap[1], heap[2]).v))

ObjectDifference ==
    /\ pc = "idle"
    /\ ReturnedObject("difference", [arr1 |-> 1, arr2 |-> 2],
                      Create(heap, difference(heap[1], heap[2]).v))

ObjectCompact ==
    /\ pc = "idle"
    /\ ReturnedObject("compact", [arr |-> 1], Create(heap, compact(heap[1]).v))

ObjectSortBy ==
    /\ pc = "idle"
    /\ \E desc \in {Undefined, Bool(TRUE)}, o \in {Copy(heap, 1)} :
           ReturnedObject("sortBy", [arr |-> 1, key |-> K, desc |-> desc],
                          Update(o, sortBy(o.heap[o.ref], K, desc).v))

ObjectSample ==
    /\ pc = "idle"
    /\ \E count \in Indexes \cup {Undefined} :
         \E picks \in SamplePicks(heap[1], count) :
           ReturnedObject("sample", [arr |-> 1, count |-> count],
                          Update(Create(heap, <<>>),
                                 [i \in DOMAIN picks |-> heap[1].v[picks[i] + 1]]))

ObjectMove ==
    /\ pc = "idle"
    /\ \E from \in Indexes, to \in Indexes, o \in {Copy(heap, 1)} :
           ReturnedObject("move", [arr |-> 1, from |-> from, to |-> to],
                          IF from.v < 0 \/ from.v >= Len(heap[1].v)
                             \/ to.v < 0 \/ to.v >= Len(heap[1].v)
                          THEN o
                          ELSE Update(o, move(o.heap[o.ref], from, to).v))

\* the arrays handed to the utilities: numbers, records and nested arrays
ObjectArrays ==
    NumArrays
        \cup {Arr(<<Obj(K :> Num(2)), Undefined, Obj(K :> Num(1))>>),
              Arr(<<Arr(<<Num(2)>>), Num(1), Arr(<<Num(1), Arr(<<Num(0)>>)>>)>>),
              Arr(<<Num(1), Null, Num(0)>>)}

InitObjects ==
    /\ fn = "none"
    /\ args = <<>>
    /\ ret = Undefined
    /\ pc = "idle"
    /\ loc = <<>>
    /\ heap \in {<<a, b>> : a \in ObjectArrays, b \in ShortArrays}
    /\ env = <<>>

NextObjects ==
    \/ ObjectUnique
    \/ ObjectChunk
    \/ ObjectFlatten
    \/ ObjectIntersection
    \/ ObjectDifference
    \/ ObjectCompact
    \/ ObjectSortBy
    \/ ObjectSample
    \/ ObjectMove

SpecObjects == InitObjects /\ [][NextObjects]_vars

\* C28: unique, chunk, flatten, intersection, difference, compact, sortBy,
\* sample and move leave the arrays they are given as they were, with the
\* same elements in the same order, and return an array object that is none
\* of them, also move with an index out of range and flatten with a depth
\* below 1.
C28_InputUntouchedNewArray ==
    [][pc = "idle" =>
          /\ heap'[1] = heap[1]
          /\ heap'[2] = heap[2]
          /\ ret' \notin {1, 2}
          /\ ret' \in DOMAIN heap']_vars

\* sortBy has returned a sorted copy of an array that is not sorted
C28_Witness ==
    /\ pc = "done"
    /\ fn = "sortBy"
    /\ ret = 3
    /\ heap[1] = Arr(<<Obj(K :> Num(2)), Undefined, Obj(K :> Num(1))>>)
    /\ heap[3] = Arr(<<Obj(K :> Num(1)), Obj(K :> Num(2)), Undefined>>)

====
